---- MODULE Spec2Model ----
(***************************************************************************)
(* NetRunner link checker: the per-link classification protocol            *)
(* (validators/advanced_link_checker.py, check_link_strict) and its        *)
(* throttled wrapper and batched runner (checker.py, validate_link and     *)
(* run_checker_async).                                                     *)
(*                                                                         *)
(* A URL is a record [host, path]; path is the sequence of the segments    *)
(* between the slashes, a trailing slash being a last empty segment:       *)
(*   https://h/de-de/x  is  <<"de-de", "x">>,  https://h/de-de/  is        *)
(*   <<"de-de", "">>.                                                      *)
(* A response body is described by what the code reads from it: whether it *)
(* decodes under the declared charset, the length of the <title> string,   *)
(* the length of the joined visible text, where an error phrase ends in    *)
(* the visible text, whether the raw body holds the word "cloudflare", and *)
(* the canonical link tag.                                                 *)
(***************************************************************************)
EXTENDS Integers, Sequences, FiniteSets, TLC

\* ------------------------------------------------------------------ bounds
MaxLinks == 4
\* The tunables of checker.py (PER_DOMAIN_CONCURRENCY, BATCH_SIZE in the
\* environment), set small.
PER_DOMAIN_CONCURRENCY == 1
BATCH_SIZE == 2
GLOBAL_CONCURRENCY == 1
MaxPages == 3
MaxLen == 3
\* MAX_PROCESSES of main.py, set small, and the number of locale files.
MAX_PROCESSES == 2
MaxLocales == 3

\* ------------------------------------------------------- program constants
MIN_TEXT_LEN == 300
VISIBLE_CUT == 5000
SNIPPET_CUT == 400

LinkIds == 1..MaxLinks

\* ------------------------------------------------------------------- URLs
Hosts == {"kwalee.com", "KWALEE.COM", "ext.org"}

\* q is what follows the path: "" or a query ("?a=1") or a fragment ("#top").
Url(h, p) == [host |-> h, path |-> p, q |-> ""]

\* str.lower() on the strings of the model.
Lower(h) ==
  CASE h = "KWALEE.COM" -> "kwalee.com"
    [] h = "X" -> "x"
    [] h = "F.PDF" -> "f.pdf"
    [] OTHER -> h

\* domain_of: urlparse(url).netloc.lower()
domain_of(u) == Lower(u.host)

\* use_head heuristic of validate_link: "kwalee.com" in dom (localhost and
\* 127.0.0.1 are no hosts of the model).
use_head(dom) == dom \in {"kwalee.com"}

\* Indices k with "/" seg "/" in the URL text: a locale-shaped segment that
\* is followed by a slash, i.e. is not the last element of the path.
LocaleHits(u) == {k \in 1..(Len(u.path) - 1) : u.path[k] \in {"de-de", "en-us"}}

\* LOCALE_RE.search(final_url)
LOCALE_RE_search(u) == LocaleHits(u) # {}

MinOf(S) == CHOOSE x \in S : \A y \in S : x <= y

RemoveAt(s, k) == [j \in 1..(Len(s) - 1) |-> IF j < k THEN s[j] ELSE s[j + 1]]

\* LOCALE_RE.sub("/", final_url, count=1): the first match "/xx-yy/" becomes "/".
LOCALE_RE_sub(u) ==
  IF LocaleHits(u) = {} THEN u
  ELSE [u EXCEPT !.path = RemoveAt(u.path, MinOf(LocaleHits(u)))]

\* ----------------------------------------------------------------- bodies
\* The body "" (no bytes): falsy in `if body:`.
EmptyBody ==
  [empty |-> TRUE, dec |-> TRUE, tlen |-> 0, vlen |-> 0, errEnd |-> 0,
   errTitle |-> FALSE, cf |-> FALSE, canon |-> "none"]

Html(dec, tlen, vlen, errEnd, errTitle, cf, canon) ==
  [empty |-> FALSE, dec |-> dec, tlen |-> tlen, vlen |-> vlen, errEnd |-> errEnd,
   errTitle |-> errTitle, cf |-> cf, canon |-> canon]

\* <tlen, vlen, errEnd, errTitle>: title length, visible-text length, the
\* offset at which the first error phrase of the visible text ends (0: none),
\* and whether the title holds an error phrase.
TextShapes ==
  { <<0, 0, 0, FALSE>>,        \* markup only, no text
    <<12, 286, 0, FALSE>>,     \* 12 + 1 + 286 = 299 characters
    <<12, 287, 0, FALSE>>,     \* 12 + 1 + 287 = 300 characters
    <<12, 450, 40, FALSE>>,    \* long page, "page not found" early in the text
    <<9, 450, 0, TRUE>>,       \* long page, title "Not Found"
    <<12, 5600, 5300, FALSE>>, \* error phrase after the first 5000 characters
    <<12, 5600, 0, FALSE>> }   \* long clean page

\* The empty body; every text shape with and without the challenge marker;
\* the canonical tags on a long clean page and on a short one; two bodies
\* whose bytes do not decode under the declared charset (only resp.text()
\* without errors="ignore" tells them from the others).
Bodies ==
  {EmptyBody}
  \cup { Html(TRUE, t[1], t[2], t[3], t[4], c, "none") :
           t \in TextShapes, c \in BOOLEAN }
  \cup { Html(TRUE, 12, v, 0, FALSE, FALSE, k) :
           v \in {286, 5600}, k \in {"same", "slash", "other", "bad"} }
  \cup { Html(FALSE, 12, 5600, 0, FALSE, FALSE, "none"),
         Html(FALSE, 12, 450, 40, FALSE, TRUE, "none") }

\* A text as _is_soft_404_text reads it: its length, its length after
\* strip(), and whether one of ERROR_PATTERNS matches its lower-cased form.
Text(len, slen, err) == [len |-> len, slen |-> slen, err |-> err]

\* _is_soft_404_text(text)
_is_soft_404_text(text) ==
  IF text.len = 0 THEN FALSE
  ELSE IF text.err THEN TRUE
  ELSE text.slen < MIN_TEXT_LEN

\* visible_text = " ".join(soup.stripped_strings)[:5000]
VisibleLen(b) == IF b.vlen < VISIBLE_CUT THEN b.vlen ELSE VISIBLE_CUT

\* title + " " + visible_text, as handed to _is_soft_404_text. The joined
\* stripped strings carry no outer blanks; the title is taken without any.
TitleAndText(b) ==
  Text(b.tlen + 1 + VisibleLen(b),
       IF b.tlen = 0 THEN VisibleLen(b)
       ELSE IF VisibleLen(b) = 0 THEN b.tlen
       ELSE b.tlen + 1 + VisibleLen(b),
       b.errTitle \/ (b.errEnd > 0 /\ b.errEnd <= VisibleLen(b)))

\* snippet: (visible_text[:400] + "...") if len(visible_text) > 400 else
\* visible_text; a snippet is represented by its length.
SnippetOf(b) ==
  IF VisibleLen(b) > SNIPPET_CUT THEN SNIPPET_CUT + 3 ELSE VisibleLen(b)

\* s.rstrip("/") on a URL: the trailing empty segments go, when the text
\* ends with the path (a query or a fragment does not end with a slash).
RECURSIVE RStripPath(_)
RStripPath(p) ==
  IF Len(p) > 0 /\ p[Len(p)] = "" THEN RStripPath(SubSeq(p, 1, Len(p) - 1)) ELSE p

rstrip_slash(u) == IF u.q = "" THEN [u EXCEPT !.path = RStripPath(u.path)] ELSE u

\* urljoin(current_final, href) for the canonical tags of the model.
CanonicalUrl(b, current_final) ==
  CASE b.canon = "same" -> current_final
    [] b.canon = "slash" ->
         IF Len(current_final.path) > 0
            /\ current_final.path[Len(current_final.path)] = ""
         THEN rstrip_slash(current_final)
         ELSE [current_final EXCEPT !.path = Append(@, "")]
    [] OTHER -> Url(current_final.host, <<"elsewhere">>)

\* urljoin raises ValueError on an href such as "http://[".
AnalyzeRaises(b) == b.canon = "bad"

NoAnalysis ==
  [present |-> FALSE, snippet |-> 0, hasCanonical |-> FALSE,
   canonical |-> Url("", <<>>), soft |-> FALSE]

\* _analyze_html(html, current_final), for a body on which it does not raise.
_analyze_html(b, current_final) ==
  [present |-> TRUE,
   snippet |-> SnippetOf(b),
   hasCanonical |-> b.canon \notin {"none", "bad"},
   canonical |-> IF b.canon \in {"none", "bad"} THEN Url("", <<>>)
                 ELSE CanonicalUrl(b, current_final),
   soft |-> _is_soft_404_text(TitleAndText(b))]

\* ------------------------------------------------------------ result dicts
\* A reason string: its fixed text, the status code it prints (0: none) and
\* the exception it prints ("": none).
Reason(kind, code, err) == [kind |-> kind, code |-> code, err |-> err]

\* The result dict check_link_strict starts from; status_code None is -1.
InitialResult(u) ==
  [url |-> u, final_url |-> u, status |-> "UNKNOWN", status_code |-> -1,
   reason |-> Reason("", 0, ""), snippet |-> 0, localized_rescue |-> FALSE,
   canonical_match |-> FALSE, js_recovery |-> FALSE]

\* The dict of the last except branch of check_link_strict.
ExceptionResult(u, e) ==
  [url |-> u, final_url |-> u, status |-> "N/A", status_code |-> 0,
   reason |-> Reason("exc", 0, e)]

\* The dict of the except branch of check_link_strict after a JS render.
JsExceptionResult(u, js) ==
  [url |-> u, final_url |-> u, status |-> "OK", status_code |-> 200,
   reason |-> Reason("Recovered via JS render (exception path)", 0, ""),
   snippet |-> IF js.len > SNIPPET_CUT THEN SNIPPET_CUT + 3 ELSE js.len,
   js_recovery |-> TRUE]

\* The err dict with a failed request counted as a broken link.
ValidateErrorResult_Broken(u, e) ==
  [url |-> u, status |-> "BROKEN", status_code |-> 0, reason |-> Reason("exc", 0, e)]

\* The err dict of validate_link (its _timing_ms is added on return).
ValidateErrorResult(u, e) ==
  [url |-> u, status |-> "N/A", status_code |-> 0, reason |-> Reason("exc", 0, e)]

\* res["_timing_ms"] = now_ms() - start (the time itself is not modelled).
WithTiming(d) == [k \in DOMAIN d \cup {"timing_ms"} |->
                    IF k = "timing_ms" THEN 0 ELSE d[k]]

NotReturned == [none |-> TRUE]

\* --------------------------------------------- check_link_strict, by stage
\* The locals of one validation: pc is the await it stands at.
InitialLocals(u) ==
  [pc |-> "new", status |-> 0, final_url |-> u, body |-> EmptyBody,
   analysed |-> NoAnalysis, result |-> InitialResult(u), ret |-> NotReturned,
   exc |-> ""]

Returning(L, d) == [L EXCEPT !.pc = "ret", !.ret = d, !.result = d]

\* An except branch that renders whatever enable_js says.
ExceptionPath_Renders(L, u, e, js) == [L EXCEPT !.pc = "js_exc", !.exc = e]

\* except Exception as e: the JS render if enabled, else the N/A dict.
ExceptionPath(L, u, e, js) ==
  IF js THEN [L EXCEPT !.pc = "js_exc", !.exc = e]
  ELSE [L EXCEPT !.pc = "ret", !.ret = ExceptionResult(u, e), !.exc = e]

\* A rule that takes every error status for a broken link.
HardBroken_Any4xx(status) == status >= 400

\* status >= 500 or status == 404 or status == 410
HardBroken(status) == status >= 500 \/ status = 404 \/ status = 410

\* Lines 266-297: the 403 heuristics and the default OK.
FinalVerdict(L, js) ==
  IF L.status = 403
  THEN IF ~L.body.empty /\ L.body.cf   \* body and "cloudflare" in body.lower()
       THEN LET r == [L.result EXCEPT
                        !.status = "SOFT_403", !.status_code = 403,
                        !.reason = Reason("Cloudflare / Bot protection detected (soft)", 0, ""),
                        !.snippet = L.analysed.snippet]
            IN IF js THEN [L EXCEPT !.pc = "js_403", !.result = r]
               ELSE Returning(L, r)
       ELSE Returning(L, [L.result EXCEPT
                            !.status = "OK", !.status_code = 403,
                            !.reason = Reason("403 treated as OK (soft)", 0, "")])
  ELSE Returning(L, [L.result EXCEPT
                       !.status = "OK", !.status_code = L.status,
                       !.reason = Reason("HTTP", L.status, ""),
                       !.snippet = L.analysed.snippet])

\* Lines 213-232: canonical flag, soft-404 verdict, the locale test.
AfterAnalysis(L, an, js) ==
  LET r == IF an.hasCanonical /\ rstrip_slash(an.canonical) = rstrip_slash(L.final_url)
           THEN [L.result EXCEPT !.canonical_match = TRUE] ELSE L.result
      L1 == [L EXCEPT !.analysed = an, !.result = r]
  IN IF an.soft
     THEN Returning(L1, [r EXCEPT !.status = "SOFT_404",
                           !.status_code = L.status,
                           !.reason = Reason("Soft/visible error detected", 0, ""),
                           !.snippet = an.snippet])
     ELSE IF LOCALE_RE_search(L.final_url)
             /\ LOCALE_RE_sub(L.final_url) # L.final_url
          THEN [L1 EXCEPT !.pc = "fb_head"]
          ELSE FinalVerdict(L1, js)

\* Lines 173-211, for a status that is not None.
AfterPrimary(L, u, status, final, body, js) ==
  LET r == [L.result EXCEPT !.status_code = status, !.final_url = final]
      L0 == [L EXCEPT !.status = status, !.final_url = final, !.body = body,
                      !.result = r]
  IN IF HardBroken(status)
     THEN IF ~body.empty /\ AnalyzeRaises(body)
          THEN ExceptionPath(L0, u, "ValueError", js)
          ELSE Returning(L0, [r EXCEPT !.status = "BROKEN",
                                !.reason = Reason("HTTP", status, ""),
                                !.snippet = IF body.empty THEN 0 ELSE SnippetOf(body)])
     ELSE IF ~body.empty
          THEN IF AnalyzeRaises(body)
               THEN ExceptionPath(L0, u, "ValueError", js)
               ELSE AfterAnalysis(L0, _analyze_html(body, final), js)
          ELSE [L0 EXCEPT !.pc = "reget"]

\* PrimaryFailed without the assignment of the status.
PrimaryFailed_NoStatus(L, u, e) ==
  Returning(L, [L.result EXCEPT !.status_code = 0, !.final_url = u,
                  !.reason = Reason("__EXC__", 0, e)])

\* Lines 175-178: _head_then_get returned (None, surl, "__EXC__:<e>").
PrimaryFailed(L, u, e) ==
  Returning(L, [L.result EXCEPT !.status_code = 0, !.final_url = u,
                  !.status = "N/A", !.reason = Reason("__EXC__", 0, e)])

\* The existence check taken as passed by any response.
FallbackSucceeded_AnyStatus(o) == o.out = "resp"

\* if fh.status == 200 / if fg.status == 200
FallbackSucceeded(o) == o.out = "resp" /\ o.status = 200

\* A rescue that sets the flag and the URL and leaves the status as it is.
Rescued_KeepsStatus(L, resolved) ==
  Returning(L, [L.result EXCEPT !.localized_rescue = TRUE,
                  !.reason = Reason("Localized fallback succeeded", 0, ""),
                  !.final_url = resolved])

\* Lines 241-246 and 256-261: the fallback answered 200.
Rescued(L, resolved) ==
  Returning(L, [L.result EXCEPT !.localized_rescue = TRUE, !.status = "OK",
                  !.reason = Reason("Localized fallback succeeded", 0, ""),
                  !.final_url = resolved])

\* ------------------------------------------------------------------ state
VARIABLES
  links,         \* the ids of the links of this run
  inp,           \* per link: url, entry point, enable_js, the site behind it
  lk,            \* per link: the locals of its validation
  out,           \* per link: the dict returned to the caller
  hist,          \* per link: the outcome of every request it issued
  domain_locks,  \* domain key -> free permits of its asyncio.Semaphore
  run,           \* run_checker_async: phase, batch offset, gathered chunk, results
  conn,          \* the operations that hold a connection of the session
  fetch,         \* per seed page: the state of its fetch_page_links coroutine
  pool           \* main(): the futures of the locales, results, failed

vars == <<links, inp, lk, out, hist, domain_locks, run, conn, fetch, pool>>

\* ------------------------------------------------------------ the network
InputPaths == {<<"x">>, <<"de-de", "missing">>, <<"de-de">>}

\* Where a request for u may end after redirects.
Resolved(u) == {u, Url(u.host, <<"de-de", "en-us", "">>)}

NoReq == [out |-> "none"]
Fail(e) == [out |-> "fail", err |-> e]
HeadResp(s, f) == [out |-> "resp", status |-> s, url |-> f]
GetResp(s, f, b) == [out |-> "resp", status |-> s, url |-> f, body |-> b]

CleanPage == Html(TRUE, 12, 5600, 0, FALSE, FALSE, "none")
OopsPage == Html(TRUE, 12, 450, 40, FALSE, FALSE, "none")

\* What the server behind a link answers: "any" is every response; the
\* other kinds are fixed servers (a healthy page, a removed page, an error
\* page served with 200, a host that does not answer); an "away" server
\* redirects to a page of another domain; a "twin" server answers every
\* request as the same request of validation 1 was answered, its pages
\* served without their canonical link tag.
Replayed(o) ==
  IF o.out = "none" THEN {}
  ELSE IF o.out = "resp" /\ "body" \in DOMAIN o
       THEN {[o EXCEPT !.body.canon = "none"]}
       ELSE {o}

HeadOutcomes(page, u) ==
  CASE page = "any" ->
         {Fail("timeout")}
         \cup {HeadResp(s, f) : s \in {200, 403, 404, 405, 500}, f \in Resolved(u)}
    [] page = "ok" -> {HeadResp(200, u)}
    [] page = "gone" -> {HeadResp(410, u)}
    [] page = "soft" -> {HeadResp(200, u)}
    [] page = "guard" -> {HeadResp(403, u)}
    [] page = "away" -> {HeadResp(200, Url("ext.org", <<"x">>))}
    [] page = "twin" -> Replayed(hist[1].head)
    [] OTHER -> {Fail("timeout")}   \* "down", "nohead"

GetOutcomes(page, u) ==
  CASE page = "any" ->
         {Fail("conn")}
         \cup {GetResp(s, f, b) : s \in {200, 401, 403, 404, 405, 410, 429, 500}, f \in Resolved(u), b \in Bodies}
    [] page = "ok" -> {GetResp(200, u, CleanPage)}
    [] page = "gone" -> {GetResp(410, u, OopsPage)}
    [] page = "soft" -> {GetResp(200, u, OopsPage)}
    [] page = "nohead" -> {GetResp(200, u, CleanPage)}
    [] page = "guard" -> {GetResp(403, u, Html(TRUE, 12, 900, 0, FALSE, TRUE, "none"))}
    [] page = "away" -> {GetResp(200, Url("ext.org", <<"x">>), OopsPage)}
    [] page = "twin" -> Replayed(hist[1].get)
    [] OTHER -> {Fail("conn")}

\* The body re-fetch reads the text alone, not the status or the URL.
RefetchOutcomes(page, u) ==
  CASE page = "any" -> {Fail("conn")} \cup {GetResp(200, u, b) : b \in Bodies}
    [] page = "twin" -> Replayed(hist[1].reget)
    [] OTHER -> GetOutcomes(page, u)

\* The existence check on the locale-stripped URL.
FallbackOutcomes(page) ==
  CASE page = "twin" /\ hist[1].fbget.out # "none" -> {hist[1].fbget}
    [] page \in {"any", "twin"} ->
         { Fail("timeout"),
           [out |-> "resp", status |-> 200, moved |-> FALSE],
           [out |-> "resp", status |-> 200, moved |-> TRUE],
           [out |-> "resp", status |-> 404, moved |-> FALSE] }
    [] page = "down" -> {Fail("timeout")}
    [] OTHER -> {[out |-> "resp", status |-> 200, moved |-> FALSE]}

\* The HEAD of the existence check: a "nohead" server fails every HEAD.
FallbackHeadOutcomes(page) ==
  IF page = "nohead" THEN {Fail("timeout")} ELSE FallbackOutcomes(page)

FallbackResolved(o, fallback) ==
  IF o.moved THEN Url(fallback.host, <<"home">>) ELSE fallback

\* _maybe_js_check: (ok, text, err); text is page.content() as
\* _is_soft_404_text reads it.
JsOutcomes ==
  {[ok |-> FALSE, text |-> Text(0, 0, FALSE)]}
  \cup {[ok |-> TRUE, text |-> t] :
          t \in {Text(0, 0, FALSE), Text(120, 120, FALSE),
                 Text(900, 900, FALSE), Text(900, 900, TRUE)}}

NoHistory ==
  [head |-> NoReq, get |-> NoReq, reget |-> NoReq, fbhead |-> NoReq,
   fbget |-> NoReq, js |-> NoReq, site |-> NoReq, reqs |-> <<>>]

Req(m, to) == [method |-> m, to |-> to]

\* -------------------------------------------------------------- the gates
\* A lookup that puts a new gate in the map at every call.
setdefault_Replace(locks, d) ==
  [k \in DOMAIN locks \cup {d} |->
     IF k = d THEN PER_DOMAIN_CONCURRENCY ELSE locks[k]]

\* domain_locks.setdefault(dom, asyncio.Semaphore(PER_DOMAIN_CONCURRENCY))
setdefault(locks, d) ==
  IF d \in DOMAIN locks THEN locks
  ELSE [k \in DOMAIN locks \cup {d} |->
          IF k = d THEN PER_DOMAIN_CONCURRENCY ELSE locks[k]]

\* A gate that lets every caller in.
sem_free_Always(locks, d) == TRUE

\* asyncio.Semaphore: acquire() returns once the value is positive.
sem_free(locks, d) == locks[d] > 0
sem_acquire(locks, d) == [locks EXCEPT ![d] = @ - 1]
\* A gate whose permits are not given back.
sem_release_Never(locks, d) == locks

sem_release(locks, d) == [locks EXCEPT ![d] = @ + 1]

Dom(i) == domain_of(inp[i].url)
ViaValidateLink(i) == inp[i].entry = "validate_link"

\* The awaits inside `async with sem:`.
GatedPcs == {"vl_head", "vl_get", "reget", "fb_head", "fb_get", "js_403", "js_exc"}
InGate(i) == i \in links /\ ViaValidateLink(i) /\ lk[i].pc \in GatedPcs

\* A gate taken with acquire() and given back after the body without a
\* finally: a cancelled validation keeps its permit.
cancel_release_None(locks, S) == locks

\* CancelledError raised inside `async with sem:` (validate_link re-raises
\* it): __aexit__ gives the permit of every cancelled validation of S back.
cancel_release(locks, S) ==
  [d \in DOMAIN locks |-> locks[d] + Cardinality({i \in S : Dom(i) = d})]

\* A stage ended in L2: either the validation stands at its next await, or
\* check_link_strict returned; then validate_link stamps the timing, leaves
\* `async with sem` and returns.
Commit(i, L2) ==
  IF L2.pc = "ret"
  THEN /\ lk' = [lk EXCEPT ![i] = [L2 EXCEPT !.pc = "done"]]
       /\ out' = [out EXCEPT ![i] =
                    IF ViaValidateLink(i) THEN WithTiming(L2.ret) ELSE L2.ret]
       /\ domain_locks' = IF ViaValidateLink(i)
                          THEN sem_release(domain_locks, Dom(i))
                          ELSE domain_locks
  ELSE /\ lk' = [lk EXCEPT ![i] = L2]
       /\ UNCHANGED <<out, domain_locks>>

Log(i, field, o, m, to) ==
  hist' = [hist EXCEPT ![i] =
             [[@ EXCEPT !.reqs = Append(@, Req(m, to))] EXCEPT ![field] = o]]

\* As Log, for the response that fixes final_url: what the server would
\* answer to a HEAD of final_url without its locale segment is fixed with it.
LogPrimary(i, field, o, m, to, site) ==
  hist' = [hist EXCEPT ![i] =
             [[[@ EXCEPT !.reqs = Append(@, Req(m, to))] EXCEPT ![field] = o]
                EXCEPT !.site = site]]

SiteOutcomes(page, o) ==
  IF page = "twin" THEN {hist[1].site}
  ELSE IF o.out = "resp" /\ LOCALE_RE_search(o.url) THEN FallbackHeadOutcomes(page)
  ELSE {NoReq}

\* ---------------------------------------------------------- the connector
\* aiohttp.TCPConnector(limit=max_concurrency): every request of the session
\* first takes one of `limit` connections, waiting while none is free, and
\* gives it back when its response has been read or released.
LinkOp(i) == <<"link", i>>
PageOp(k) == <<"page", k>>

\* A connector that hands out a connection to every caller.
conn_free_Always(c, limit) == TRUE

conn_free(c, limit) == Cardinality(c) < limit

\* max_concurrency = max_concurrency or GLOBAL_CONCURRENCY (0 stands for None)
max_concurrency_or(mc) == IF mc = 0 THEN GLOBAL_CONCURRENCY ELSE mc

\* The awaits of a validation that are requests of the session.
SessionPcs == {"vl_head", "vl_get", "sh_head", "sh_get", "reget", "fb_head", "fb_get"}

\* The request a validation stands at is given a connection.
Connect(i) ==
  /\ i \in links /\ lk[i].pc \in SessionPcs
  /\ LinkOp(i) \notin conn
  /\ conn_free(conn, run.limit)
  /\ conn' = conn \cup {LinkOp(i)}
  /\ UNCHANGED <<pool, links, inp, lk, out, hist, domain_locks, run, fetch>>

\* A response that does not give its connection back.
Answered_KeepsConnection(i) ==
  /\ LinkOp(i) \in conn
  /\ conn' = conn

\* The response of the request of validation i arrives: its connection is
\* back in the pool before the next request of the validation.
Answered(i) ==
  /\ LinkOp(i) \in conn
  /\ conn' = conn \ {LinkOp(i)}

\* ---------------------------------------------------------------- actions
FirstRequest(i) == IF use_head(Dom(i)) THEN "vl_head" ELSE "vl_get"

\* validate_link up to its first await: the gate of the domain is looked up
\* (created if absent) and entered at once when it has a free permit.
ValidateStart(i) ==
  /\ i \in links /\ ViaValidateLink(i) /\ lk[i].pc = "new"
  /\ LET locks == setdefault(domain_locks, Dom(i))
     IN IF sem_free(locks, Dom(i))
        THEN /\ domain_locks' = sem_acquire(locks, Dom(i))
             /\ lk' = [lk EXCEPT ![i].pc = FirstRequest(i)]
        ELSE /\ domain_locks' = locks
             /\ lk' = [lk EXCEPT ![i].pc = "acquire"]
  /\ UNCHANGED <<pool, links, inp, out, hist, run, conn, fetch>>

\* A waiter of the gate is woken with a permit.
Acquire(i) ==
  /\ i \in links /\ lk[i].pc = "acquire"
  /\ sem_free(domain_locks, Dom(i))
  /\ domain_locks' = sem_acquire(domain_locks, Dom(i))
  /\ lk' = [lk EXCEPT ![i].pc = FirstRequest(i)]
  /\ UNCHANGED <<pool, links, inp, out, hist, run, conn, fetch>>

\* validate_link: session.head(url); its response goes to check_link_strict
\* as async_resp, whose text() is "" for a HEAD; an exception falls through
\* to the GET.
ValidateHead(i) ==
  /\ i \in links /\ lk[i].pc = "vl_head"
  /\ \E o \in HeadOutcomes(inp[i].page, inp[i].url) :
     \E site \in SiteOutcomes(inp[i].page, o) :
       /\ LogPrimary(i, "head", o, "HEAD", inp[i].url, site)
       /\ IF o.out = "fail"
          THEN /\ lk' = [lk EXCEPT ![i].pc = "vl_get"]
               /\ UNCHANGED <<out, domain_locks>>
          ELSE Commit(i, AfterPrimary(lk[i], inp[i].url, o.status, o.url,
                                      EmptyBody, inp[i].enable_js))
  /\ Answered(i)
  /\ UNCHANGED <<pool, links, inp, run, fetch>>

\* validate_link: session.get(url); check_link_strict reads its text with
\* resp.text() when status < 500 (a decoding error is caught in
\* _head_then_get), and takes "" otherwise. A failed GET gives the err dict.
ValidateGet(i) ==
  /\ i \in links /\ lk[i].pc = "vl_get"
  /\ \E o \in GetOutcomes(inp[i].page, inp[i].url) :
     \E site \in SiteOutcomes(inp[i].page, o) :
       /\ LogPrimary(i, "get", o, "GET", inp[i].url, site)
       /\ IF o.out = "fail"
          THEN Commit(i, [lk[i] EXCEPT !.pc = "ret", !.exc = o.err,
                             !.ret = ValidateErrorResult(inp[i].url, o.err)])
          ELSE IF o.status < 500
               THEN IF o.body.dec
                    THEN Commit(i, AfterPrimary(lk[i], inp[i].url, o.status, o.url,
                                                o.body, inp[i].enable_js))
                    ELSE Commit(i, PrimaryFailed(lk[i], inp[i].url, "decode"))
               ELSE Commit(i, AfterPrimary(lk[i], inp[i].url, o.status, o.url,
                                           EmptyBody, inp[i].enable_js))
  /\ Answered(i)
  /\ UNCHANGED <<pool, links, inp, run, fetch>>

\* check_link_strict(url, session) called without async_resp: nothing
\* happens before the HEAD of _head_then_get.
StrictStart(i) ==
  /\ i \in links /\ ~ViaValidateLink(i) /\ lk[i].pc = "new"
  /\ lk' = [lk EXCEPT ![i].pc = "sh_head"]
  /\ UNCHANGED <<pool, links, inp, out, hist, domain_locks, run, conn, fetch>>

\* _head_then_get: HEAD first; 405/501 or any status >= 400 and any
\* exception go on to the GET.
StrictHead(i) ==
  /\ i \in links /\ lk[i].pc = "sh_head"
  /\ \E o \in HeadOutcomes(inp[i].page, inp[i].url) :
     \E site \in SiteOutcomes(inp[i].page, o) :
       IF o.out = "fail" \/ o.status \in {405, 501} \/ o.status >= 400
       THEN /\ Log(i, "head", IF o.out = "fail" THEN o ELSE HeadResp(o.status, inp[i].url),
                   "HEAD", inp[i].url)
            /\ lk' = [lk EXCEPT ![i].pc = "sh_get"]
            /\ UNCHANGED <<out, domain_locks>>
       ELSE /\ LogPrimary(i, "head", o, "HEAD", inp[i].url, site)
            /\ Commit(i, AfterPrimary(lk[i], inp[i].url, o.status, o.url,
                                      EmptyBody, inp[i].enable_js))
  /\ Answered(i)
  /\ UNCHANGED <<pool, links, inp, run, fetch>>


\* _head_then_get: the GET fallback, its body read with errors="ignore".
StrictGet(i) ==
  /\ i \in links /\ lk[i].pc = "sh_get"
  /\ \E o \in GetOutcomes(inp[i].page, inp[i].url) :
     \E site \in SiteOutcomes(inp[i].page, o) :
       /\ LogPrimary(i, "get", o, "GET", inp[i].url, site)
       /\ IF o.out = "fail"
          THEN Commit(i, PrimaryFailed(lk[i], inp[i].url, o.err))
          ELSE Commit(i, AfterPrimary(lk[i], inp[i].url, o.status, o.url,
                                      o.body, inp[i].enable_js))
  /\ Answered(i)
  /\ UNCHANGED <<pool, links, inp, run, fetch>>

\* No body yet: session.get(final_url) for the text alone, the status of
\* that response is not read; any exception leaves the blank analysis.
BodyRefetch(i) ==
  /\ i \in links /\ lk[i].pc = "reget"
  /\ \E o \in RefetchOutcomes(inp[i].page, lk[i].final_url) :
       /\ Log(i, "reget", o, "GET", lk[i].final_url)
       /\ Commit(i, AfterAnalysis(lk[i],
                      IF o.out = "fail" \/ AnalyzeRaises(o.body)
                      THEN [NoAnalysis EXCEPT !.present = TRUE]
                      ELSE _analyze_html(o.body, lk[i].final_url),
                      inp[i].enable_js))
  /\ Answered(i)
  /\ UNCHANGED <<pool, links, inp, run, fetch>>

\* session.head(fallback, timeout=8): 200 rescues, an exception goes on to
\* the GET, any other status leaves the verdict to the 403/default rules.
FallbackHead(i) ==
  /\ i \in links /\ lk[i].pc = "fb_head"
  /\ LET o == hist[i].site
         fallback == LOCALE_RE_sub(lk[i].final_url)
     IN /\ Log(i, "fbhead", o, "HEAD", fallback)
        /\ IF o.out = "fail"
           THEN /\ lk' = [lk EXCEPT ![i].pc = "fb_get"]
                /\ UNCHANGED <<out, domain_locks>>
           ELSE IF FallbackSucceeded(o)
                THEN Commit(i, Rescued(lk[i], FallbackResolved(o, fallback)))
                ELSE Commit(i, FinalVerdict(lk[i], inp[i].enable_js))
  /\ Answered(i)
  /\ UNCHANGED <<pool, links, inp, run, fetch>>

\* session.get(fallback, timeout=8) after the HEAD raised.
FallbackGet(i) ==
  /\ i \in links /\ lk[i].pc = "fb_get"
  /\ \E o \in FallbackOutcomes(inp[i].page) :
       LET fallback == LOCALE_RE_sub(lk[i].final_url)
       IN /\ Log(i, "fbget", o, "GET", fallback)
          /\ IF FallbackSucceeded(o)
             THEN Commit(i, Rescued(lk[i], FallbackResolved(o, fallback)))
             ELSE Commit(i, FinalVerdict(lk[i], inp[i].enable_js))
  /\ Answered(i)
  /\ UNCHANGED <<pool, links, inp, run, fetch>>

\* ok and js_text and not _is_soft_404_text(js_text)
JsRecovers(o) == o.ok /\ o.text.len > 0 /\ ~_is_soft_404_text(o.text)

\* The JS render of the SOFT_403 branch (enable_js only).
JsRender403(i) ==
  /\ i \in links /\ lk[i].pc = "js_403"
  /\ \E o \in JsOutcomes :
       /\ hist' = [hist EXCEPT ![i].js = [out |-> "js", ok |-> o.ok, text |-> o.text]]
       /\ Commit(i, Returning(lk[i],
                      IF JsRecovers(o)
                      THEN [lk[i].result EXCEPT
                              !.js_recovery = TRUE, !.status = "OK",
                              !.status_code = 200,
                              !.reason = Reason("Recovered via JS render", 0, ""),
                              !.snippet = IF o.text.len > SNIPPET_CUT
                                          THEN SNIPPET_CUT + 3
                                          ELSE o.text.len]
                      ELSE lk[i].result))
  /\ UNCHANGED <<pool, links, inp, run, conn, fetch>>

\* The JS render of the last except branch (enable_js only).
JsRenderExc(i) ==
  /\ i \in links /\ lk[i].pc = "js_exc"
  /\ \E o \in JsOutcomes :
       /\ hist' = [hist EXCEPT ![i].js = [out |-> "js", ok |-> o.ok, text |-> o.text]]
       /\ Commit(i, [lk[i] EXCEPT !.pc = "ret",
                       !.ret = IF JsRecovers(o)
                               THEN JsExceptionResult(inp[i].url, o.text)
                               ELSE ExceptionResult(inp[i].url, lk[i].exc)])
  /\ UNCHANGED <<pool, links, inp, run, conn, fetch>>

\* main() outside its pool: no locale submitted.
NoPool ==
  [phase |-> "none", n |-> 0, task |-> <<>>, broken |-> FALSE,
   results |-> <<>>, failed |-> <<>>, written |-> <<>>]

\* ------------------------------------------------- one validation (Spec)
\* No page fetch, no run: the state of run_checker_async when a validation
\* is called on its own.
NoPage == [pc |-> "none", items |-> <<>>, how |-> ""]
IdlePage == [pc |-> "idle", items |-> <<>>, how |-> ""]

NoRun ==
  [phase |-> "call", urls |-> <<>>, limit |-> GLOBAL_CONCURRENCY, offset |-> 0,
   chunk |-> {}, extracted |-> <<>>, all_links |-> <<>>, results |-> <<>>,
   broken |-> <<>>, unique |-> <<>>, twice |-> <<>>]

Input(u, entry, js, page) ==
  [url |-> u, entry |-> entry, enable_js |-> js, page |-> page]

\* validate_link calls check_link_strict without enable_js: the default,
\* ENABLE_JS_RENDER = False. A direct caller may enable it.
ValidateInputs(hosts, pages) ==
  { Input(Url(h, p), "validate_link", FALSE, pg) :
      h \in hosts, p \in InputPaths, pg \in pages }

StrictInputs ==
  { Input(Url("ext.org", p), "check_link_strict", FALSE, "any") : p \in InputPaths }
  \cup { Input(Url("ext.org", <<"de-de", "missing">>), "check_link_strict", TRUE, "any") }

NoInput == Input(Url("", <<>>), "none", FALSE, "ok")

Init ==
  /\ links = {1}
  /\ \E x \in ValidateInputs({"kwalee.com", "ext.org"}, {"any"}) \cup StrictInputs :
       inp = [i \in LinkIds |-> IF i = 1 THEN x ELSE NoInput]
  /\ lk = [i \in LinkIds |-> InitialLocals(inp[i].url)]
  /\ out = [i \in LinkIds |-> NotReturned]
  /\ hist = [i \in LinkIds |-> NoHistory]
  /\ domain_locks = <<>>
  /\ run = NoRun
  /\ conn = {}
  /\ fetch = [k \in 1..MaxPages |-> NoPage]
  /\ pool = NoPool

Next ==
  \E i \in LinkIds :
    \/ ValidateStart(i)
    \/ Connect(i)
    \/ ValidateHead(i)
    \/ ValidateGet(i)
    \/ StrictStart(i)
    \/ StrictHead(i)
    \/ StrictGet(i)
    \/ BodyRefetch(i)
    \/ FallbackHead(i)
    \/ FallbackGet(i)
    \/ JsRender403(i)
    \/ JsRenderExc(i)

Spec == Init /\ [][Next]_vars

\* --------------------------------------- one link, validated twice (TwinSpec)
\* validate_link on a link, and then once more on the same link, the server
\* answering the second validation as it answered the first but for the
\* canonical link tag, which its pages no longer have.
TwinInit ==
  /\ links = {1}
  /\ \E x \in ValidateInputs({"kwalee.com", "ext.org"}, {"any"}) :
       inp = [i \in LinkIds |->
                IF i = 1 THEN x
                ELSE IF i = 2 THEN [x EXCEPT !.page = "twin"] ELSE NoInput]
  /\ lk = [i \in LinkIds |-> InitialLocals(inp[i].url)]
  /\ out = [i \in LinkIds |-> NotReturned]
  /\ hist = [i \in LinkIds |-> NoHistory]
  /\ domain_locks = <<>>
  /\ run = NoRun
  /\ conn = {}
  /\ fetch = [k \in 1..MaxPages |-> NoPage]
  /\ pool = NoPool

\* The second call, made when the first has returned.
Revalidate ==
  /\ links = {1} /\ lk[1].pc = "done"
  /\ links' = {1, 2}
  /\ UNCHANGED <<pool, inp, lk, out, hist, domain_locks, run, conn, fetch>>

TwinNext ==
  \/ Revalidate
  \/ \E i \in {1, 2} :
       \/ ValidateStart(i)
       \/ Connect(i)
       \/ ValidateHead(i)
       \/ ValidateGet(i)
       \/ BodyRefetch(i)
       \/ FallbackHead(i)
       \/ FallbackGet(i)

TwinSpec == TwinInit /\ [][TwinNext]_vars

\* ---------------------------------------------- seed pages and extraction
\* An <a> or <button> tag: kind is what its href is (absent, an absolute
\* URL, a relative reference, a pure fragment, a mailto:, tel: or javascript:
\* link, or text urljoin raises on), lead is the white space the attribute
\* starts with, caps whether the scheme is written in capitals.
Tag(name, kind, u, text) ==
  [name |-> name, kind |-> kind, url |-> u, text |-> text, lead |-> "", caps |-> FALSE]

WithQ(u, q) == [u EXCEPT !.q = q]

P1 == Url("kwalee.com", <<"p1">>)
P2 == Url("kwalee.com", <<"p2">>)
P3 == Url("ext.org", <<"p3">>)
P4 == Url("ext.org", <<"p4">>)
P5 == Url("ext.org", <<"p5">>)
SeedPages == {P1, P2, P3, P4, P5}

\* Two pages with every kind of href.
R1 == Url("kwalee.com", <<"r1">>)
R2 == Url("ext.org", <<"docs", "r2">>)
\* A page with a link that redirects to another domain.
W1 == Url("kwalee.com", <<"w1">>)

\* The <a> and <button> tags of the seed pages, in document order.
PageTags(page_url) ==
  CASE page_url = R1 ->
         << Tag("a", "rel", Url("", <<"x">>), "Home"),
            Tag("a", "tel", Url("", <<>>), "Call"),
            Tag("a", "javascript", Url("", <<>>), "Open"),
            Tag("a", "frag", Url("", <<>>), "Top"),
            [Tag("a", "mailto", Url("", <<>>), "Mail") EXCEPT !.caps = TRUE],
            Tag("a", "url", WithQ(Url("ext.org", <<"F.PDF">>), "?a=1"), "Paper"),
            Tag("button", "none", Url("", <<>>), "Menu"),
            Tag("a", "bad", Url("", <<>>), "Broken"),
            Tag("button", "url", WithQ(Url("ext.org", <<"x">>), "?a=1"), "Go") >>
    [] page_url = R2 ->
         << [Tag("a", "mailto", Url("", <<>>), "Mail") EXCEPT !.lead = " "],
            Tag("a", "rel", WithQ(Url("", <<"f.pdf">>), "#top"), "Paper"),
            Tag("a", "rel", Url("", <<"x">>), "Doc") >>
    [] page_url = W1 ->
         << Tag("a", "url", Url("kwalee.com", <<"away">>), "Partner"),
            Tag("a", "url", Url("ext.org", <<"x">>), "Ext") >>
    [] page_url = P1 ->
         << Tag("a", "url", Url("kwalee.com", <<"x">>), "Home"),
            Tag("button", "url", Url("kwalee.com", <<"x", "">>), "Go"),
            Tag("a", "mailto", Url("", <<>>), "Mail") >>
    [] page_url = P2 ->
         << Tag("a", "url", Url("KWALEE.COM", <<"x">>), "HOME"),
            Tag("a", "url", Url("kwalee.com", <<"de-de", "missing", "">>), "Alt") >>
    [] page_url = P3 ->
         << Tag("a", "url", WithQ(Url("ext.org", <<"x">>), "?a=1"), "Ext"),
            Tag("a", "url", Url("ext.org", <<"x">>), "Ext again") >>
    [] page_url = P4 ->
         << Tag("a", "url", Url("ext.org", <<"de-de", "x">>), "De"),
            Tag("a", "url", Url("ext.org", <<"f.pdf">>), "Paper"),
            Tag("button", "none", Url("", <<>>), "Menu"),
            Tag("a", "url", Url("ext.org", <<"cf">>), "Guarded") >>
    [] OTHER ->
         << Tag("a", "url", Url("kwalee.com", <<"de-de", "missing">>), "Gone"),
            Tag("a", "url", Url("kwalee.com", <<"de-de">>), "Down"),
            Tag("a", "url", Url("ext.org", <<"x">>), "Ext"),
            Tag("a", "url", Url("kwalee.com", <<"x">>), "Home again") >>

SkippedSchemes == {"mailto", "tel", "javascript"}

\* href.startswith(("mailto:", "tel:", "javascript:", "#")): a comparison
\* of the first characters of the attribute as written.
href_startswith(tag) ==
  tag.kind \in SkippedSchemes \cup {"frag"} /\ tag.lead = "" /\ ~tag.caps

\* urljoin(page_url, href): a reference with a scheme of its own is returned
\* as written; a relative one takes the place of the last segment of the
\* page's path.
urljoin(page_url, tag) ==
  CASE tag.kind = "url" -> tag.url
    [] tag.kind = "rel" ->
         [host |-> page_url.host,
          path |-> SubSeq(page_url.path, 1, Len(page_url.path) - 1) \o tag.url.path,
          q |-> tag.url.q]
    [] OTHER ->
         [host |-> "", path |-> <<>>, q |-> "", scheme |-> tag.kind, lead |-> tag.lead]

\* should_skip(url): the text before "?" and "#", lower-cased, ends with a
\* static extension or starts with mailto:, tel: or javascript:.
should_skip(u) ==
  \/ /\ Len(u.path) > 0
     /\ Lower(u.path[Len(u.path)]) \in {"f.pdf"}
  \/ /\ "scheme" \in DOMAIN u
     /\ u.scheme \in SkippedSchemes /\ u.lead = ""

Candidate(page_url, tag, full) ==
  [source_page |-> page_url, element |-> tag.name, anchor_text |-> tag.text,
   url |-> full]

\* The loop of fetch_page_links over soup.find_all(["a", "button"]).
RECURSIVE ExtractItems(_, _)
ExtractItems(page_url, tags) ==
  IF tags = <<>> THEN <<>>
  ELSE LET tag == Head(tags)
           rest == ExtractItems(page_url, Tail(tags))
       IN IF tag.kind = "none" \/ href_startswith(tag) \/ tag.kind = "bad" THEN rest
          ELSE LET full == urljoin(page_url, tag)
               IN IF should_skip(full) THEN rest
                  ELSE <<Candidate(page_url, tag, full)>> \o rest

PageResp(s, tags) == [out |-> "resp", status |-> s, tags |-> tags, parses |-> TRUE]

\* How the fetch of a seed page may fail: by an exception of the request (a
\* timeout), by an error status, or by markup the parser raises on. R1 and
\* R2 fail in every way, each other server in one.
PageFailures(page_url) ==
  LET timeout == Fail("timeout")
      status == PageResp(404, <<>>)
      parse == [PageResp(200, PageTags(page_url)) EXCEPT !.parses = FALSE]
  IN CASE page_url \in {R1, R2} -> {timeout, status, parse}
       [] page_url \in {P1, P4} -> {timeout}
       [] page_url \in {P2, P5} -> {status}
       [] OTHER -> {parse}

\* How a fetch ends: in the except branch, at the status test, or at the
\* return of the items.
FetchEnd(o) ==
  IF o.out = "fail" THEN "timeout"
  ELSE IF o.status >= 400 THEN "status"
  ELSE IF ~o.parses THEN "parse"
  ELSE "ok"

\* A fetch whose parsing is outside the try block.
fetch_page_links_Unguarded(page_url, o) ==
  IF o.out = "fail" \/ o.status >= 400 THEN <<>>
  ELSE ExtractItems(page_url, o.tags)

\* fetch_page_links from the response on: [] for status >= 400 and for any
\* exception, the extracted items otherwise.
fetch_page_links(page_url, o) ==
  IF FetchEnd(o) # "ok" THEN <<>>
  ELSE ExtractItems(page_url, o.tags)

\* The server behind a link of the seed pages.
SiteOf(u) ==
  LET h == Lower(u.host)
      p == RStripPath(u.path)
  IN CASE h = "kwalee.com" /\ p = <<"x">> -> "ok"
       [] h = "kwalee.com" /\ p = <<"de-de", "missing">> -> "gone"
       [] h = "kwalee.com" /\ p = <<"away">> -> "away"
       [] h = "kwalee.com" -> "down"
       [] p = <<"x">> -> "soft"
       [] p = <<"cf">> -> "guard"
       [] OTHER -> "nohead"

\* ------------------------------------------------------- de-duplication
\* url_key = (l.get("url") or "").rstrip("/")
url_key(l) == rstrip_slash(l.url)

\* One round of the loop: `normalized`, a dict in insertion order, is the
\* sequence of its values.
DedupStep(normalized, l) ==
  IF url_key(l) \in {url_key(normalized[j]) : j \in 1..Len(normalized)} THEN normalized ELSE Append(normalized, l)

\* The loop from its k-th round on (the dict after a round is bound to n,
\* so that it is computed once).
RECURSIVE DedupFrom(_, _, _)
DedupFrom(normalized, extracted, k) ==
  IF k > Len(extracted) THEN normalized
  ELSE CHOOSE r \in { DedupFrom(n, extracted, k + 1) :
                        n \in {DedupStep(normalized, extracted[k])} } : TRUE

\* A run that validates every candidate it extracted.
Dedup_None(extracted) == extracted

\* all_links = list(normalized.values())
Dedup(extracted) == DedupFrom(<<>>, extracted, 1)

\* ---------------------------------------------- utils/dedup.py (DedupSpec)
\* url.strip().lower() (no URL of the model has outer whitespace)
LowerUrl(u) ==
  [host |-> Lower(u.host),
   path |-> [k \in 1..Len(u.path) |-> Lower(u.path[k])],
   q |-> Lower(u.q)]

\* normalize_url: lower-case, the fragment and the query removed, then one
\* trailing slash removed.
normalize_url(url) ==
  LET u == [LowerUrl(url) EXCEPT !.q = ""]
  IN IF Len(u.path) > 0 /\ u.path[Len(u.path)] = ""
     THEN [u EXCEPT !.path = SubSeq(@, 1, Len(@) - 1)]
     ELSE u

\* One round of the loop of remove_duplicate_urls: sd is (seen, unique).
\* A later URL takes the place of the one already seen.
RemoveStep_LastWins(sd, url) ==
  LET norm == normalize_url(url)
  IN [seen |-> sd.seen \cup {norm},
      unique |-> Append(SelectSeq(sd.unique, LAMBDA x : normalize_url(x) # norm), url)]

\* A loop that keeps the normalised form in place of the URL.
RemoveStep_AppendsKey(sd, url) ==
  LET norm == normalize_url(url)
  IN IF norm \notin sd.seen
     THEN [seen |-> sd.seen \cup {norm}, unique |-> Append(sd.unique, norm)]
     ELSE sd

RemoveStep(sd, url) ==
  LET norm == normalize_url(url)
  IN IF norm \notin sd.seen
     THEN [seen |-> sd.seen \cup {norm}, unique |-> Append(sd.unique, url)]
     ELSE sd

RECURSIVE RemoveFrom(_, _, _)
RemoveFrom(sd, urls, k) ==
  IF k > Len(urls) THEN sd
  ELSE RemoveFrom(RemoveStep(sd, urls[k]), urls, k + 1)

remove_duplicate_urls(urls) == RemoveFrom([seen |-> {}, unique |-> <<>>], urls, 1).unique

\* A list of URLs, and the same URLs as candidates found on different pages.
DedupInit ==
  /\ \E urls \in UNION {[1..n ->
                            \* texts that differ by case, trailing slashes,
                            \* query and fragment
                            { Url("kwalee.com", <<"x">>),
                              Url("kwalee.com", <<"x", "">>),
                              Url("kwalee.com", <<"x", "", "">>),
                              Url("KWALEE.COM", <<"x">>),
                              Url("kwalee.com", <<"X">>),
                              WithQ(Url("kwalee.com", <<"x">>), "?a=1"),
                              WithQ(Url("kwalee.com", <<"x", "">>), "#top"),
                              Url("ext.org", <<"x">>) }] : n \in 0..MaxLen} :
       run = [NoRun EXCEPT
                !.phase = "dedup", !.urls = urls,
                !.extracted = [k \in 1..Len(urls) |->
                                 [source_page |-> <<P1, P2, P3, P4, P5>>[k], element |-> "a",
                                  anchor_text |-> "Link", url |-> urls[k]]]]
  /\ links = {}
  /\ inp = [i \in LinkIds |-> NoInput]
  /\ lk = [i \in LinkIds |-> [InitialLocals(inp[i].url) EXCEPT !.pc = "idle"]]
  /\ out = [i \in LinkIds |-> NotReturned]
  /\ hist = [i \in LinkIds |-> NoHistory]
  /\ domain_locks = <<>>
  /\ conn = {}
  /\ fetch = [k \in 1..MaxPages |-> NoPage]
  /\ pool = NoPool

\* A call of remove_duplicate_urls(urls).
RemoveDuplicateUrls ==
  /\ run.phase = "dedup"
  /\ run' = [run EXCEPT !.phase = "dedup_urls",
                        !.unique = remove_duplicate_urls(run.urls)]
  /\ UNCHANGED <<pool, links, inp, lk, out, hist, domain_locks, conn, fetch>>

\* The de-duplication of run_checker_async on the candidates.
DedupLinks ==
  /\ run.phase = "dedup"
  /\ run' = [run EXCEPT !.phase = "dedup_links",
                        !.all_links = Dedup(run.extracted)]
  /\ UNCHANGED <<pool, links, inp, lk, out, hist, domain_locks, conn, fetch>>

\* remove_duplicate_urls called on the list it returned.
RemoveDuplicateUrlsAgain ==
  /\ run.phase = "dedup_urls"
  /\ run' = [run EXCEPT !.phase = "dedup_twice",
                        !.twice = remove_duplicate_urls(run.unique)]
  /\ UNCHANGED <<pool, links, inp, lk, out, hist, domain_locks, conn, fetch>>

DedupNext == RemoveDuplicateUrls \/ RemoveDuplicateUrlsAgain \/ DedupLinks

DedupSpec == DedupInit /\ [][DedupNext]_vars

\* ---------------------------------------------------- one run (RunSpec)
RECURSIVE Flatten(_)
Flatten(ss) == IF ss = <<>> THEN <<>> ELSE Head(ss) \o Flatten(Tail(ss))

\* Every link the seed pages `urls` can give, when every fetch succeeds.
AllCandidates(urls) ==
  Flatten([k \in 1..Len(urls) |-> ExtractItems(urls[k], PageTags(urls[k]))])

\* The lists of seed pages of the model: P1 may be listed more than once.
SeedLists ==
  { urls \in UNION {[1..n -> SeedPages] : n \in 0..MaxPages} :
      /\ \A a, b \in 1..Len(urls) : a # b /\ urls[a] = urls[b] => urls[a] = P1
      /\ Len(Dedup(AllCandidates(urls))) <= MaxLinks }

\* run_checker_async(urls, max_concurrency) at its first line: the session
\* is open, one fetch_page_links coroutine per seed page, none started.
RunStart(urls, mc) ==
  /\ run = [NoRun EXCEPT !.phase = "extract", !.urls = urls,
                         !.limit = max_concurrency_or(mc)]
  /\ fetch = [k \in 1..MaxPages |-> IF k <= Len(urls) THEN IdlePage ELSE NoPage]
  /\ links = {}
  /\ inp = [i \in LinkIds |-> NoInput]
  /\ lk = [i \in LinkIds |-> [InitialLocals(inp[i].url) EXCEPT !.pc = "idle"]]
  /\ out = [i \in LinkIds |-> NotReturned]
  /\ hist = [i \in LinkIds |-> NoHistory]
  /\ domain_locks = <<>>
  /\ conn = {}
  /\ pool = NoPool

RunInit == \E urls \in SeedLists, mc \in {0, GLOBAL_CONCURRENCY} : RunStart(urls, mc)

\* extract_tasks[i:i + BATCH_SIZE]
PageChunkAt(offset) ==
  {k \in 1..Len(run.urls) : offset < k /\ k <= offset + BATCH_SIZE}

\* asyncio.gather(*batch): the coroutines of the batch become tasks and
\* stand at their session.get.
StartExtractBatch ==
  /\ run.phase = "extract" /\ run.chunk = {} /\ run.offset < Len(run.urls)
  /\ run' = [run EXCEPT !.chunk = PageChunkAt(run.offset)]
  /\ fetch' = [k \in 1..MaxPages |->
              IF k \in PageChunkAt(run.offset) THEN [fetch[k] EXCEPT !.pc = "get"] ELSE fetch[k]]
  /\ UNCHANGED <<pool, links, inp, lk, out, hist, domain_locks, conn>>

\* The session.get of a page fetch is given a connection.
ConnectPage(k) ==
  /\ k \in 1..MaxPages /\ fetch[k].pc = "get"
  /\ PageOp(k) \notin conn
  /\ conn_free(conn, run.limit)
  /\ conn' = conn \cup {PageOp(k)}
  /\ UNCHANGED <<pool, links, inp, lk, out, hist, domain_locks, run, fetch>>

\* fetch_page_links from the response to its return.
FetchPage(k) ==
  /\ k \in 1..MaxPages /\ fetch[k].pc = "get"
  /\ PageOp(k) \in conn
  /\ \E o \in {PageResp(200, PageTags(run.urls[k]))} \cup PageFailures(run.urls[k]) :
       fetch' = [fetch EXCEPT ![k] = [pc |-> "done",
                                 items |-> fetch_page_links(run.urls[k], o),
                                 how |-> FetchEnd(o)]]
  /\ conn' = conn \ {PageOp(k)}
  /\ UNCHANGED <<pool, links, inp, lk, out, hist, domain_locks, run>>

\* The lists of a batch in the order of its pages.
RECURSIVE BatchItems(_)
BatchItems(S) ==
  IF S = {} THEN <<>>
  ELSE LET k == MinOf(S) IN fetch[k].items \o BatchItems(S \ {k})

\* A gather that returns with the first fetch that has returned.
gather_pages_done_First(S) == \E k \in S : fetch[k].pc = "done"

\* await asyncio.gather(*batch) returns when every fetch of the batch has.
gather_pages_done(S) == \A k \in S : fetch[k].pc = "done"

\* gather returns once every fetch of the batch has returned; the lists
\* are appended to `extracted`.
EndExtractBatch ==
  /\ run.phase = "extract" /\ run.chunk # {}
  /\ gather_pages_done(run.chunk)
  /\ run' = [run EXCEPT !.chunk = {},
                        \* range(0, len(extract_tasks), max(1, BATCH_SIZE))
                        !.offset = @ + (IF BATCH_SIZE > 1 THEN BATCH_SIZE ELSE 1),
                        !.extracted = @ \o BatchItems(run.chunk)]
  /\ UNCHANGED <<pool, links, inp, lk, out, hist, domain_locks, conn, fetch>>

\* ------------------------------------------- the extraction (FetchSpec)
\* The extraction loop of a run on seed lists that hold the pages with every
\* kind of href; the session takes max_concurrency connections.
FetchInit ==
  \E urls \in UNION {[1..n -> {R1, R2, P1}] : n \in 1..MaxPages} :
    RunStart(urls, GLOBAL_CONCURRENCY + 1)

FetchNext ==
  \/ StartExtractBatch
  \/ EndExtractBatch
  \/ \E k \in 1..MaxPages :
       \/ ConnectPage(k)
       \/ FetchPage(k)

FetchSpec == FetchInit /\ [][FetchNext]_vars

\* The URL a validator is built for: l["url"].
LinkUrl_Key(l) == url_key(l)

LinkUrl(l) == l.url

\* A gate map that lives in the module and is handed from run to run.
new_domain_locks_Shared(old) == old

\* domain_locks: Dict[str, asyncio.Semaphore] = {}, a local of the run;
\* `old` is the map the last run left behind.
new_domain_locks(old) == <<>>

\* After the last batch: the de-duplication, an empty gate map and one
\* validate_link coroutine per unique link, none of them started.
EndExtraction ==
  /\ run.phase = "extract" /\ run.chunk = {} /\ run.offset >= Len(run.urls)
  /\ run' = [run EXCEPT !.phase = "validate", !.offset = 0,
                        !.all_links = Dedup(run.extracted)]
  /\ links' = 1..Len(run'.all_links)
  /\ inp' = [i \in LinkIds |->
               IF i <= Len(run'.all_links)
               THEN Input(LinkUrl(run'.all_links[i]), "validate_link", FALSE,
                          SiteOf(run'.all_links[i].url))
               ELSE NoInput]
  /\ lk' = [i \in LinkIds |->
              IF i <= Len(run'.all_links)
              THEN [InitialLocals(LinkUrl(run'.all_links[i])) EXCEPT !.pc = "idle"]
              ELSE lk[i]]
  /\ domain_locks' = new_domain_locks(domain_locks)
  /\ UNCHANGED <<pool, out, hist, conn, fetch>>

Total == Cardinality(links)

\* A slice that takes every validator from the offset on.
ChunkAt_Rest(offset) == {i \in links : offset < i}

\* validators[i:i + BATCH_SIZE]
ChunkAt(offset) == {i \in links : offset < i /\ i <= offset + BATCH_SIZE}

\* The results of a chunk without those of the links that failed.
ChunkResults_NoErrors(S, o) ==
  SelectSeq([n \in 1..MaxLinks |-> IF n \in S THEN o[n] ELSE [status |-> "N/A"]],
            LAMBDA r : r.status # "N/A")

\* The results of a chunk in the order of its links (gather keeps it).
RECURSIVE ChunkResults(_, _)
ChunkResults(S, o) ==
  IF S = {} THEN <<>>
  ELSE LET i == MinOf(S) IN <<o[i]>> \o ChunkResults(S \ {i}, o)

\* asyncio.gather(*chunk): the coroutines of the next chunk become tasks.
StartBatch ==
  /\ run.phase = "validate" /\ run.chunk = {} /\ run.offset < Total
  /\ run' = [run EXCEPT !.chunk = ChunkAt(run.offset)]
  /\ lk' = [i \in LinkIds |->
              IF i \in ChunkAt(run.offset) THEN [lk[i] EXCEPT !.pc = "new"] ELSE lk[i]]
  /\ UNCHANGED <<pool, links, inp, out, hist, domain_locks, conn, fetch>>

\* await asyncio.gather(*chunk) returns when every task of the chunk has.
gather_done(S) == \A i \in S : lk[i].pc = "done"

\* gather returns once every task of the chunk has returned; the results
\* are appended and the loop moves to the next offset.
EndBatch ==
  /\ run.phase = "validate" /\ run.chunk # {}
  /\ gather_done(run.chunk)
  /\ run' = [run EXCEPT !.chunk = {},
                        !.offset = @ + BATCH_SIZE,
                        !.results = @ \o ChunkResults(run.chunk, out)]
  /\ UNCHANGED <<pool, links, inp, lk, out, hist, domain_locks, conn, fetch>>

\* A filter that takes every result that is not OK.
IsBroken_NotOK(r) == r.status # "OK"

IsBroken(r) == r.status = "BROKEN"

\* broken = [r for r in results if r and r.get("status") == "BROKEN"]
Broken(results) == SelectSeq(results, IsBroken)

\* The loop over the batches is over (or there was no link at all): the
\* broken items are collected and the run returns
\* (broken_path, broken, all_links, duration).
EndValidation ==
  /\ run.phase = "validate" /\ run.chunk = {} /\ run.offset >= Total
  /\ run' = [run EXCEPT !.phase = "done", !.broken = Broken(run.results)]
  /\ UNCHANGED <<pool, links, inp, lk, out, hist, domain_locks, conn, fetch>>

\* run_checker is called again in the same process (a worker of the pool
\* takes its next locale): a new event loop, a new session, new coroutines.
\* The map of the run that returned is garbage: nothing of the new run
\* holds it. The next run has one seed page.
NextRun ==
  /\ run.phase = "done"
  /\ \E page_url \in SeedPages :
       /\ run' = [NoRun EXCEPT !.phase = "extract", !.urls = <<page_url>>,
                               !.limit = max_concurrency_or(0)]
       /\ fetch' = [k \in 1..MaxPages |-> IF k = 1 THEN IdlePage ELSE NoPage]
  /\ links' = {}
  /\ inp' = [i \in LinkIds |-> NoInput]
  /\ lk' = [i \in LinkIds |-> [InitialLocals(NoInput.url) EXCEPT !.pc = "idle"]]
  /\ out' = [i \in LinkIds |-> NotReturned]
  /\ hist' = [i \in LinkIds |-> NoHistory]
  /\ conn' = {}
  /\ UNCHANGED <<pool, domain_locks>>

\* The steps of one run, from its first line to its return.
RunSteps ==
  \/ StartExtractBatch
  \/ EndExtractBatch
  \/ EndExtraction
  \/ StartBatch
  \/ EndBatch
  \/ EndValidation
  \/ \E k \in 1..MaxPages :
       \/ ConnectPage(k)
       \/ FetchPage(k)
  \/ \E i \in LinkIds :
       \/ ValidateStart(i)
       \/ Acquire(i)
       \/ Connect(i)
       \/ ValidateHead(i)
       \/ ValidateGet(i)
       \/ BodyRefetch(i)
       \/ FallbackHead(i)
       \/ FallbackGet(i)

RunNext == RunSteps \/ NextRun

RunSpec == RunInit /\ [][RunNext]_vars

\* --------------------------------------- two connections (WideSpec)
\* Runs whose session has more connections than a domain gate has permits,
\* as with the defaults (200 connections, 8 permits).
WideInit ==
  \E urls \in UNION {[1..n -> {W1, P1, P2, P4}] : n \in 1..BATCH_SIZE} :
    /\ Len(Dedup(AllCandidates(urls))) <= MaxLinks
    /\ RunStart(urls, GLOBAL_CONCURRENCY + 1)

WideSpec == WideInit /\ [][RunNext]_vars

\* ------------------------------------------------ one fair run (LiveSpec)
\* One run on at most two seed pages. The event loop runs a task that is
\* ready, and every request of the session returns or fails within its
\* timeout: a step of the run that can be taken is taken in the end.
LiveInit == \E urls \in SeedLists : Len(urls) < MaxPages /\ RunStart(urls, 0)

LiveSpec == LiveInit /\ [][RunSteps]_vars /\ WF_vars(RunSteps)

\* ------------------------------------------- a cancelled run (CancelSpec)
\* The task of run_checker_async is cancelled while it awaits a gather:
\* gather cancels the tasks of the wave, and CancelledError is raised in each
\* of them at the await it stands at. A validation inside its gate leaves
\* `async with sem` (the permit goes back) and its request is closed; one that
\* waits at the gate leaves the queue of waiters; nothing is returned.
CancelRun ==
  /\ run.phase \in {"extract", "validate"}
  /\ run' = [run EXCEPT !.phase = "cancelled", !.chunk = {}]
  /\ lk' = [i \in LinkIds |->
              IF i \in links /\ lk[i].pc \notin {"idle", "done"}
              THEN [lk[i] EXCEPT !.pc = "cancelled"] ELSE lk[i]]
  /\ fetch' = [k \in 1..MaxPages |->
                 IF fetch[k].pc = "get" THEN [fetch[k] EXCEPT !.pc = "cancelled"]
                 ELSE fetch[k]]
  /\ domain_locks' = cancel_release(domain_locks, {i \in links : InGate(i)})
  /\ conn' = {}
  /\ UNCHANGED <<pool, links, inp, out, hist>>

CancelSpec == RunInit /\ [][RunSteps \/ CancelRun]_vars

\* ------------------------------------------ the locales of main (MainSpec)
\* A locale is the index of its file in find_locale_url_files(). Its future
\* is pending (in the queue of the executor), running (in a worker process),
\* finished or collected (taken by the as_completed loop); `end` is how it
\* finished: process_locale returned, process_locale raised, the worker
\* process died, or the pool broke under it.
Future(pc, end, summary) == [pc |-> pc, end |-> end, summary |-> summary]

\* The status of the summary process_locale returns: two early returns, the
\* caught exception of run_checker, the summary of a run.
Summaries ==
  {"Skipped (No URLs)", "Skipped (homepage unavailable)",
   "Failed (checker error)", "Healthy"}

\* main() after the submit of every locale (it returns before, when there
\* is no locale file).
MainInit ==
  /\ \E n \in 1..MaxLocales :
       pool = [NoPool EXCEPT !.phase = "pool", !.n = n,
                 !.task = [l \in 1..n |-> Future("pending", "", "")]]
  /\ links = {}
  /\ inp = [i \in LinkIds |-> NoInput]
  /\ lk = [i \in LinkIds |-> [InitialLocals(inp[i].url) EXCEPT !.pc = "idle"]]
  /\ out = [i \in LinkIds |-> NotReturned]
  /\ hist = [i \in LinkIds |-> NoHistory]
  /\ domain_locks = <<>>
  /\ run = NoRun
  /\ conn = {}
  /\ fetch = [k \in 1..MaxPages |-> NoPage]

Running == {l \in 1..pool.n : pool.task[l].pc = "running"}

\* A worker process takes the next call of the queue.
StartWorker(l) ==
  /\ pool.phase = "pool" /\ ~pool.broken
  /\ l \in 1..pool.n /\ pool.task[l].pc = "pending"
  /\ \A m \in 1..(l - 1) : pool.task[m].pc # "pending"
  /\ Cardinality(Running) < MAX_PROCESSES
  /\ pool' = [pool EXCEPT !.task[l].pc = "running"]
  /\ UNCHANGED <<links, inp, lk, out, hist, domain_locks, run, conn, fetch>>

\* process_locale returns (locale, summary).
WorkerReturns(l) ==
  /\ l \in Running
  /\ \E summary \in Summaries :
       pool' = [pool EXCEPT !.task[l] = Future("finished", "returned", summary)]
  /\ UNCHANGED <<links, inp, lk, out, hist, domain_locks, run, conn, fetch>>

\* process_locale raises (outside its try blocks: the logger, makedirs, an
\* exception of the homepage check that is no RequestException).
WorkerRaises(l) ==
  /\ l \in Running
  /\ pool' = [pool EXCEPT !.task[l] = Future("finished", "raised", "")]
  /\ UNCHANGED <<links, inp, lk, out, hist, domain_locks, run, conn, fetch>>

\* concurrent.futures on the death of a worker process: the pool is broken,
\* BrokenProcessPool is set on every future that is not finished, the other
\* workers are terminated.
BrokenProcessPool(task, l) ==
  [m \in DOMAIN task |->
     IF m = l THEN Future("finished", "crashed", "")
     ELSE IF task[m].pc \in {"pending", "running"}
          THEN Future("finished", "broken", "")
          ELSE task[m]]

\* The worker process that runs locale l dies (killed for its memory, a
\* crash of the interpreter).
WorkerCrashes(l) ==
  /\ l \in Running
  /\ pool' = [pool EXCEPT !.broken = TRUE, !.task = BrokenProcessPool(pool.task, l)]
  /\ UNCHANGED <<links, inp, lk, out, hist, domain_locks, run, conn, fetch>>

\* One round of `for future in as_completed(futures)`: future.result() gives
\* the summary, stored in results, or raises, and the locale goes to failed.
Collect(l) ==
  /\ pool.phase = "pool"
  /\ l \in 1..pool.n /\ pool.task[l].pc = "finished"
  /\ IF pool.task[l].end = "returned"
     THEN pool' = [pool EXCEPT
                     !.task[l].pc = "collected",
                     !.results = [m \in DOMAIN pool.results \cup {l} |->
                                    IF m = l THEN pool.task[l].summary
                                    ELSE pool.results[m]]]
     ELSE pool' = [pool EXCEPT !.task[l].pc = "collected",
                               !.failed = Append(@, l)]
  /\ UNCHANGED <<links, inp, lk, out, hist, domain_locks, run, conn, fetch>>

\* The loop is over and the `with` block is left (shutdown waits for the
\* workers): build_metrics() and the metrics file with `results`.
BuildMetrics ==
  /\ pool.phase = "pool"
  /\ \A l \in 1..pool.n : pool.task[l].pc = "collected"
  /\ pool' = [pool EXCEPT !.phase = "done", !.written = pool.results]
  /\ UNCHANGED <<links, inp, lk, out, hist, domain_locks, run, conn, fetch>>

MainNext ==
  \/ BuildMetrics
  \/ \E l \in 1..MaxLocales :
       \/ StartWorker(l)
       \/ WorkerReturns(l)
       \/ WorkerRaises(l)
       \/ WorkerCrashes(l)
       \/ Collect(l)

MainSpec == MainInit /\ [][MainNext]_vars

\* ----------------------------------------------------------------- claims
Done(i) == i \in links /\ lk[i].pc = "done"

TerminalStatuses == {"OK", "BROKEN", "SOFT_404", "SOFT_403", "N/A"}

\* The response the classification starts from: that of the GET when one
\* was answered, else that of the HEAD when no GET was issued.
Primary(i) ==
  IF hist[i].get.out = "resp" THEN hist[i].get
  ELSE IF hist[i].get.out = "none" /\ hist[i].head.out = "resp" THEN hist[i].head
  ELSE NoReq

HasPrimary(i) == Primary(i).out = "resp"

\* The body of the page: that of the primary GET, else (the primary
\* response being a HEAD) that of the body re-fetch.
HasPageBody(i) ==
  \/ hist[i].get.out = "resp"
  \/ (HasPrimary(i) /\ hist[i].reget.out = "resp")

PageBody(i) == IF hist[i].get.out = "resp" THEN hist[i].get.body ELSE hist[i].reget.body

\* The body check_link_strict holds for the primary response (what the 403
\* rule searches for its marker): "" for a HEAD.
PrimaryBody(i) == IF hist[i].get.out = "resp" THEN hist[i].get.body ELSE EmptyBody

\* C1: classification totality. A validation that has ended has returned
\* one dict to its caller, whose status is one of OK, BROKEN, SOFT_404,
\* SOFT_403, N/A (never the initial UNKNOWN); before it ends nothing is
\* returned. Every response, failure and raising analysis ends this way.
C1_ClassificationTotality ==
  \A i \in links :
    /\ Done(i) => /\ "status" \in DOMAIN out[i]
                  /\ out[i].status \in TerminalStatuses
    /\ ~Done(i) => out[i] = NotReturned

\* C1 witness: an analysis that raised (urljoin on a malformed canonical
\* href) was turned into an N/A result.
C1_Witness ==
  \E i \in links : Done(i) /\ lk[i].exc = "ValueError" /\ out[i].status = "N/A"

\* C2: hard-failure precedence. Whenever the resolved status is 404, 410 or
\* 5xx, the result is BROKEN with reason "HTTP <code>", whatever the body.
C2_HardFailurePrecedence ==
  \A i \in links :
    (Done(i) /\ HasPrimary(i)
     /\ (Primary(i).status \in {404, 410} \/ Primary(i).status >= 500))
    => /\ out[i].status = "BROKEN"
       /\ out[i].reason = Reason("HTTP", Primary(i).status, "")

\* The whole title and the whole visible text of a body, before any cut.
FullTextLen(b) ==
  IF b.tlen = 0 THEN b.vlen ELSE IF b.vlen = 0 THEN b.tlen ELSE b.tlen + 1 + b.vlen
HasErrorPhrase(b) == b.errTitle \/ b.errEnd > 0

\* C3: soft-404 detection. A link whose resolved response is 200 and whose
\* title + visible text is shorter than 300 characters or holds an error
\* phrase is never OK.
C3_Soft404NeverOK ==
  \A i \in links :
    (Done(i) /\ HasPrimary(i) /\ Primary(i).status = 200 /\ HasPageBody(i)
     /\ (FullTextLen(PageBody(i)) < MIN_TEXT_LEN \/ HasErrorPhrase(PageBody(i))))
    => out[i].status # "OK"

\* C4: locale rescue. When final_url holds a /xx-yy/ segment and the server
\* answers 200 to the existence check on final_url without it, the result
\* is OK with localized_rescue and the fallback's resolved URL, whatever
\* the response at the localized path was.
C4_LocaleRescue ==
  \A i \in links :
    (Done(i) /\ HasPrimary(i) /\ LOCALE_RE_search(Primary(i).url)
     /\ hist[i].site.out = "resp" /\ hist[i].site.status = 200)
    => /\ out[i].status = "OK"
       /\ "localized_rescue" \in DOMAIN out[i]
       /\ out[i].localized_rescue
       /\ out[i].final_url =
            FallbackResolved(hist[i].site, LOCALE_RE_sub(Primary(i).url))

FallbackAttempted(i) == hist[i].fbhead.out # "none"

\* Neither request of the existence check was answered 200.
FallbackFailed(i) ==
  /\ FallbackAttempted(i)
  /\ ~(hist[i].fbhead.out = "resp" /\ hist[i].fbhead.status = 200)
  /\ ~(hist[i].fbget.out = "resp" /\ hist[i].fbget.status = 200)

\* The JS render was run and gave a text that is not soft-404-like.
JsRecovered(i) ==
  /\ hist[i].js.out = "js" /\ hist[i].js.ok /\ hist[i].js.text.len > 0
  /\ ~hist[i].js.text.err /\ hist[i].js.text.slen >= MIN_TEXT_LEN

\* What the primary response alone gives for a page that is neither hard
\* broken nor soft-404: <<status, status_code, reason>>.
VerdictWithoutFallback(i) ==
  LET s == Primary(i).status IN
  IF s = 403
  THEN IF PrimaryBody(i).cf
       THEN IF JsRecovered(i)
            THEN <<"OK", 200, Reason("Recovered via JS render", 0, "")>>
            ELSE <<"SOFT_403", 403,
                   Reason("Cloudflare / Bot protection detected (soft)", 0, "")>>
       ELSE <<"OK", 403, Reason("403 treated as OK (soft)", 0, "")>>
  ELSE <<"OK", s, Reason("HTTP", s, "")>>

\* C5: a failed locale fallback keeps the prior classification. When the
\* existence check was issued and did not succeed (another status, or both
\* requests failed), status, status_code, reason and final_url are those of
\* the primary response alone and localized_rescue is false.
C5_FailedFallbackKeepsVerdict ==
  \A i \in links :
    (Done(i) /\ FallbackFailed(i))
    => /\ <<out[i].status, out[i].status_code, out[i].reason>>
            = VerdictWithoutFallback(i)
       /\ out[i].final_url = Primary(i).url
       /\ out[i].localized_rescue = FALSE

\* C5 witness: HEAD and GET of the existence check both failed, and the
\* 403 challenge page kept its SOFT_403.
C5_Witness ==
  \E i \in links :
    /\ Done(i) /\ hist[i].fbhead.out = "fail" /\ hist[i].fbget.out = "fail"
    /\ out[i].status = "SOFT_403"

\* C6: bot-challenge classification. A resolved 403 whose body holds a
\* bot-protection marker is SOFT_403 when the render recovery is disabled
\* or unsuccessful, for every such body and every path.
C6_BotChallengeIsSoft403 ==
  \A i \in links :
    (Done(i) /\ HasPrimary(i) /\ Primary(i).status = 403
     /\ hist[i].get.out = "resp" /\ hist[i].get.body.cf
     /\ (~inp[i].enable_js \/ ~JsRecovered(i)))
    => out[i].status = "SOFT_403"

\* C7: a resolved 403 whose body holds no bot-protection marker is OK, for
\* every body.
C7_PlainForbiddenIsOK ==
  \A i \in links :
    (Done(i) /\ HasPrimary(i) /\ Primary(i).status = 403 /\ ~PrimaryBody(i).cf)
    => out[i].status = "OK"

\* C8: transport failure handling. When the HEAD probe fails at transport
\* level, the next request is one GET of the link; when that GET fails too
\* nothing else is requested and the result is N/A with the GET's transport
\* error as reason, not BROKEN.
C8_TransportFailure ==
  \A i \in links :
    (Done(i) /\ hist[i].head.out = "fail")
    => /\ hist[i].get.out # "none"
       /\ hist[i].reqs[2] = Req("GET", inp[i].url)
       /\ hist[i].get.out = "fail"
          => /\ Len(hist[i].reqs) = 2
             /\ out[i].status = "N/A"
             /\ out[i].reason.err = hist[i].get.err
             /\ out[i].reason.kind \in {"exc", "__EXC__"}

\* C8 witness: probe and GET both failed, through validate_link.
C8_Witness ==
  \E i \in links :
    /\ Done(i) /\ ViaValidateLink(i)
    /\ hist[i].head.out = "fail" /\ hist[i].get.out = "fail"
    /\ out[i].status = "N/A"

\* C9: escalation on an ambiguous probe. Whenever the HEAD probe returns a
\* status >= 400 (405 and 403 among them) a full GET is performed and the
\* classification works on the status and body of that GET.
C9_EscalationOnProbe ==
  \A i \in links :
    (Done(i) /\ hist[i].head.out = "resp" /\ hist[i].head.status >= 400)
    => /\ hist[i].get.out # "none"
       /\ hist[i].get.out = "resp"
          => /\ lk[i].status = hist[i].get.status
             /\ lk[i].body = hist[i].get.body

\* The validations of domain d inside `async with sem`.
InFlight(d) == {i \in links : InGate(i) /\ Dom(i) = d}

\* C10: per-domain concurrency ceiling. At every moment, for every domain
\* key, at most PER_DOMAIN_CONCURRENCY validations of that domain are inside
\* the gated region.
C10_PerDomainCeiling ==
  \A d \in {Dom(i) : i \in links} :
    Cardinality(InFlight(d)) <= PER_DOMAIN_CONCURRENCY

\* C10 witness: the gate of a domain is full and another validation of the
\* same domain waits for it.
C10_Witness ==
  \E i, j \in links :
    /\ i # j /\ Dom(i) = Dom(j)
    /\ InGate(i) /\ lk[j].pc = "acquire"
    /\ Cardinality(InFlight(Dom(i))) = PER_DOMAIN_CONCURRENCY

\* ------------------------------------------------------ claims of the run
Pages == 1..Len(run.urls)

\* The operations that wait for a connection of the session.
WaitingForConnection ==
  {LinkOp(i) : i \in {j \in links : lk[j].pc \in SessionPcs}}
  \cup {PageOp(k) : k \in {j \in Pages : fetch[j].pc = "get"}}

\* C11 - Global concurrency ceiling: at every moment of a run the number of
\* requests in flight, page fetches and requests of validations of all
\* domains together, is at most the configured ceiling (max_concurrency,
\* by default GLOBAL_CONCURRENCY).
C11_GlobalCeiling ==
  /\ Cardinality(conn) <= run.limit
  /\ run.limit = GLOBAL_CONCURRENCY
  /\ conn \subseteq WaitingForConnection

\* The ceiling is reached while a validation of another domain waits for a
\* connection.
C11_Witness ==
  /\ Cardinality(conn) = run.limit
  /\ \E i, j \in links :
       /\ LinkOp(i) \in conn /\ LinkOp(j) \notin conn
       /\ lk[j].pc \in SessionPcs
       /\ Dom(i) # Dom(j)

\* C12 - Gate nesting order: an operation holds the per-domain gate only
\* while it holds the global gate (the per-domain gate is acquired after
\* the global gate and released before it).
C12_GateNesting ==
  \A i \in links : InGate(i) => LinkOp(i) \in conn

OutstandingFetches == {k \in Pages : fetch[k].pc = "get"}
OutstandingValidations == {i \in links : lk[i].pc \notin {"idle", "done"}}

\* C13 - Batch bound: at no point of a run are more than BATCH_SIZE page
\* fetches, or more than BATCH_SIZE validations, started and not finished.
C13_BatchBound ==
  /\ Cardinality(OutstandingFetches) <= BATCH_SIZE
  /\ Cardinality(OutstandingValidations) <= BATCH_SIZE

\* A full wave of validations is outstanding while a further link is pending.
C13_Witness ==
  /\ Cardinality(OutstandingValidations) = BATCH_SIZE
  /\ \E i \in links : lk[i].pc = "idle"
  /\ Len(run.urls) > BATCH_SIZE

\* The wave of the n-th operation of a phase, in input order.
WaveOf(n) == (n - 1) \div BATCH_SIZE

\* C14 - Wave ordering: in the extraction phase and in the validation
\* phase, an operation of a later wave has not started unless every
\* operation of every earlier wave has finished.
C14_WaveOrdering ==
  /\ \A a, b \in Pages :
       WaveOf(a) < WaveOf(b) /\ fetch[b].pc # "idle" => fetch[a].pc = "done"
  /\ \A i, j \in links :
       WaveOf(i) < WaveOf(j) /\ lk[j].pc # "idle" => lk[i].pc = "done"

\* A validation of the second wave is in flight, after an extraction that
\* took two waves.
C14_Witness ==
  /\ Len(run.urls) > BATCH_SIZE
  /\ \E j \in links : WaveOf(j) = 1 /\ lk[j].pc \in SessionPcs

Reported == run.phase = "done"

\* The page fetch k came back without items although the page has links.
FetchFailed(k) ==
  /\ fetch[k].pc = "done" /\ fetch[k].items = <<>>
  /\ ExtractItems(run.urls[k], PageTags(run.urls[k])) # <<>>

\* No request for link i was answered.
NoResponse(i) == hist[i].head.out # "resp" /\ hist[i].get.out # "resp"

\* Some step of the run can be taken: the runner can start or close a
\* batch, or an operation can take a permit, take a connection, or receive
\* the answer to its request.
CanMove ==
  \/ run.phase = "extract" /\ (run.chunk = {} \/ gather_pages_done(run.chunk))
  \/ run.phase = "validate" /\ (run.chunk = {} \/ gather_done(run.chunk))
  \/ \E k \in Pages :
       fetch[k].pc = "get" /\ (PageOp(k) \in conn \/ conn_free(conn, run.limit))
  \/ \E i \in links :
       \/ lk[i].pc = "new"
       \/ lk[i].pc = "acquire" /\ sem_free(domain_locks, Dom(i))
       \/ lk[i].pc \in SessionPcs /\ (LinkOp(i) \in conn \/ conn_free(conn, run.limit))

\* C15 - Report completeness under failures: whatever page fetches and
\* link requests fail, the run goes on to its report (no state before the
\* report is stuck); the failed fetch of a page leaves the items of the
\* other pages in place; in the report every unique link has exactly one
\* result, with a terminal status, N/A for the links that got no response,
\* and every operation of every wave has finished.
C15_ReportCompleteness ==
  /\ ~Reported => CanMove
  /\ run.phase \in {"validate", "done"} =>
       /\ \A k \in Pages : fetch[k].pc = "done"
       /\ run.extracted = Flatten([k \in Pages |-> fetch[k].items])
  /\ Reported =>
       /\ Len(run.results) = Len(run.all_links)
       /\ \A i \in 1..Len(run.all_links) :
            /\ lk[i].pc = "done"
            /\ run.results[i] = out[i]
            /\ Cardinality({k \in 1..Len(run.results) :
                              run.results[k].url = run.all_links[i].url}) = 1
            /\ run.results[i].status \in TerminalStatuses
            /\ NoResponse(i) => run.results[i].status = "N/A"

\* A report of a run in which a page fetch failed and a link of the first
\* wave got no response, while a link of a later wave has its verdict.
C15_Witness ==
  /\ Reported
  /\ \E k \in Pages : FetchFailed(k)
  /\ \E i, j \in links :
       /\ NoResponse(i) /\ run.results[i].status = "N/A"
       /\ WaveOf(i) < WaveOf(j) /\ run.results[j].status = "OK"

BrokenOuts == {i \in links : out[i].status = "BROKEN"}

\* C16 - broken_links partition: the broken_links of the report are exactly
\* the results with status BROKEN, each once; no result with another status
\* is among them.
C16_BrokenPartition ==
  Reported =>
    /\ Len(run.broken) = Cardinality(BrokenOuts)
    /\ \A i \in BrokenOuts : \E k \in 1..Len(run.broken) : run.broken[k] = out[i]
    /\ \A k \in 1..Len(run.broken) : run.broken[k].status = "BROKEN"

\* A report with a BROKEN result and results N/A, SOFT_404 and OK beside it.
C16_Witness ==
  /\ Reported
  /\ BrokenOuts # {}
  /\ \A st \in {"N/A", "SOFT_404", "OK"} : \E i \in links : out[i].status = st

ResultFields == {"status", "status_code", "reason", "final_url"}

\* C17 - all_links carries results: every entry of the all_links of the
\* report holds the validation result of its link (status, status_code,
\* reason, final_url).
C17_AllLinksCarryResults ==
  Reported =>
    \A i \in 1..Len(run.all_links) :
      /\ ResultFields \subseteq DOMAIN run.all_links[i]
      /\ run.all_links[i].status = out[i].status

C19_DedupCollapse ==
  run.phase \in {"validate", "done"} =>
    \A a, b \in 1..Len(run.all_links) :
      a # b => normalize_url(run.all_links[a].url) # normalize_url(run.all_links[b].url)

\* The indices of the first elements of each key.
RECURSIVE AtIndices(_, _)
AtIndices(input, S) ==
  IF S = {} THEN <<>>
  ELSE LET k == MinOf(S) IN <<input[k]>> \o AtIndices(input, S \ {k})

IsFirstSeen(input, output, Key(_)) ==
  output = AtIndices(input, {k \in 1..Len(input) :
                               \A j \in 1..(k - 1) : Key(input[j]) # Key(input[k])})

\* C20 - First-seen wins: de-duplication (of candidates in the run, of URLs
\* in remove_duplicate_urls) keeps for each key exactly the first element
\* of the input with that key, unchanged, in the order of first occurrence.
C20_FirstSeenWins ==
  /\ run.phase = "dedup_links" => IsFirstSeen(run.extracted, run.all_links, url_key)
  /\ run.phase = "dedup_urls" => IsFirstSeen(run.urls, run.unique, normalize_url)

\* Three URLs, the third with the key of the first: two are kept.
C20_Witness ==
  /\ run.phase = "dedup_urls"
  /\ Len(run.urls) = 3 /\ Len(run.unique) = 2
  /\ normalize_url(run.urls[1]) = normalize_url(run.urls[3])
  /\ run.urls[1] # run.urls[3]

\* C21: remove_duplicate_urls is idempotent: applied to the list it returned,
\* it returns that list again, element for element and in the same order.
C21_DedupIdempotent ==
  run.phase = "dedup_twice" => run.twice = run.unique

\* The second call ran on a list from which the first one had dropped a
\* duplicate and in which a kept URL is not its own normalised form.
C21_Witness ==
  /\ run.phase = "dedup_twice"
  /\ Len(run.unique) >= 2
  /\ Len(run.unique) < Len(run.urls)
  /\ \E k \in 1..Len(run.unique) : normalize_url(run.unique[k]) # run.unique[k]

\* C22: a page fetch never fails: when the page answers with a status of 400
\* or more, or the request or the parsing raises, the fetch returns the empty
\* list; every fetch of every wave returns, the links of the good pages are
\* all extracted, and the run goes on to its report.
C22_PageFetchNeverFails ==
  /\ \A k \in Pages :
        fetch[k].pc = "done" =>
          /\ fetch[k].how \in {"ok", "status", "timeout", "parse"}
          /\ fetch[k].how # "ok" => fetch[k].items = <<>>
          /\ fetch[k].how = "ok" =>
                fetch[k].items = ExtractItems(run.urls[k], PageTags(run.urls[k]))
  /\ run.phase \in {"validate", "done"} =>
        /\ \A k \in Pages : fetch[k].pc = "done"
        /\ \A k \in Pages : \A n \in 1..Len(fetch[k].items) :
              \E m \in 1..Len(run.extracted) : run.extracted[m] = fetch[k].items[n]

\* A finished run in which one seed page timed out, one could not be parsed
\* and one gave links, which were validated.
C22_Witness ==
  /\ run.phase = "done"
  /\ \E k \in Pages : fetch[k].how = "timeout"
  /\ \E k \in Pages : fetch[k].how = "parse"
  /\ \E k \in Pages : fetch[k].how = "ok" /\ fetch[k].items # <<>>
  /\ Len(run.results) > 0

\* What the link filter is said to return for the tags of a page: one
\* candidate for each href that is there, can be resolved, is no mailto:,
\* tel: or javascript: link and no pure fragment, and whose resolved URL does
\* not end in a static extension.
RECURSIVE ClaimedItems(_, _)
ClaimedItems(page_url, tags) ==
  IF tags = <<>> THEN <<>>
  ELSE LET tag == Head(tags)
           rest == ClaimedItems(page_url, Tail(tags))
       IN IF tag.kind \in {"none", "bad", "frag"} \cup SkippedSchemes THEN rest
          ELSE IF should_skip(urljoin(page_url, tag)) THEN rest
          ELSE <<Candidate(page_url, tag, urljoin(page_url, tag))>> \o rest

\* C23: the candidates of a fetched page are exactly those of the link
\* filter: none from a mailto:, tel: or javascript: href or from a pure
\* fragment, none that resolves to a static asset, and every other href,
\* resolved against the page URL.
C23_LinkFilter ==
  \A k \in Pages :
    fetch[k].pc = "done" /\ fetch[k].how = "ok" =>
      fetch[k].items = ClaimedItems(run.urls[k], PageTags(run.urls[k]))

\* The validations that entered, and that left, the gate of d in a step.
Entered(d) == {i \in LinkIds : Dom(i) = d /\ ~InGate(i) /\ InGate(i)'}
Left(d) == {i \in LinkIds : Dom(i) = d /\ InGate(i) /\ ~InGate(i)'}
Started(i) == i \in links /\ lk[i].pc \notin {"idle", "new"}

\* C24: there is one gate per domain key, the lower-cased authority: while a
\* run validates, a gate that is in the map stays in it and its permits
\* change only by the validations of its domain that enter or leave it, also
\* when several validations look the key up before any has left; a new key
\* comes into the map lower-cased, with the gate of the validation that
\* looked it up first.
C24_OneGatePerDomain ==
  [][ run.phase = "validate" /\ run'.phase = "validate" =>
        /\ \A d \in DOMAIN domain_locks :
              /\ d \in DOMAIN domain_locks'
              /\ domain_locks'[d] =
                   domain_locks[d] - Cardinality(Entered(d)) + Cardinality(Left(d))
        /\ \A d \in DOMAIN domain_locks' \ DOMAIN domain_locks :
              /\ d = Lower(d)
              /\ domain_locks'[d] = PER_DOMAIN_CONCURRENCY - Cardinality(Entered(d))
        /\ \A i \in links : Started(i)' => Dom(i) \in DOMAIN domain_locks' ]_vars

\* Two validations whose hosts differ by case have looked up the same key:
\* one is inside the gate, the other waits at it.
C24_Witness ==
  \E i, j \in links :
    /\ inp[i].url.host # inp[j].url.host
    /\ Dom(i) = Dom(j)
    /\ InGate(i) /\ lk[j].pc = "acquire"
    /\ domain_locks[Dom(i)] = 0

\* C25: the gate map belongs to one run: validation starts with an empty
\* map, every gate in the map of a run was put there by a validation of that
\* run, and while a later run of the same process extracts, nothing uses the
\* map an earlier run left behind.
C25_GateMapPerRun ==
  /\ run.phase \in {"validate", "done"} =>
        \A d \in DOMAIN domain_locks : \E i \in links : Started(i) /\ Dom(i) = d
  /\ run.phase = "extract" => \A i \in LinkIds : ~Started(i) /\ ~InGate(i)

\* A later run of the same process is in its extraction; the map of the
\* run before it is still there, with the gates of two domains.
C25_Witness ==
  /\ run.phase = "extract"
  /\ Cardinality(DOMAIN domain_locks) >= 2
  /\ \E k \in Pages : fetch[k].pc = "done" /\ fetch[k].items # <<>>

\* The fields a result is said to have on every path.
AllResultFields ==
  {"url", "final_url", "status", "status_code", "reason", "snippet",
   "localized_rescue", "canonical_match", "js_recovery"}

\* C26: every result a validation returns, on every path, has all of url,
\* final_url, status, status_code, reason, snippet, localized_rescue,
\* canonical_match and js_recovery.
C26_ResultFieldsComplete ==
  \A i \in links : out[i] # NotReturned => AllResultFields \subseteq DOMAIN out[i]

\* C27: termination. With every request returning or failing in the end,
\* every page fetch and every validation that was started returns, every
\* wave that was started completes, and the run returns its report.
C27_Termination ==
  <>( /\ run.phase = "done"
      /\ run.chunk = {}
      /\ \A k \in Pages : fetch[k].pc = "done"
      /\ \A i \in links : lk[i].pc = "done" /\ out[i] # NotReturned
      /\ Len(run.results) = Cardinality(links) )

\* A run that returned its report after a validation wave in which one
\* link had to wait at the gate of its domain and one failed.
C27_Witness ==
  /\ run.phase = "done"
  /\ Len(run.results) >= 2
  /\ \E i \in links : out[i].status = "N/A"
  /\ \E i, j \in links : i # j /\ Dom(i) = Dom(j)

Domains == {Lower(h) : h \in Hosts}

\* The seed-page fetches whose request is in flight against domain d.
FetchesTo(d) ==
  {k \in Pages : fetch[k].pc = "get" /\ PageOp(k) \in conn
                  /\ domain_of(run.urls[k]) = d}

\* C28: page fetching goes through the per-domain gate: the seed-page
\* fetches in flight against one domain never exceed the per-domain limit.
C28_PageFetchCeiling ==
  \A d \in Domains : Cardinality(FetchesTo(d)) <= PER_DOMAIN_CONCURRENCY

\* The URL the request a validation stands at is sent to.
RequestUrl(i) ==
  CASE lk[i].pc = "reget" -> lk[i].final_url
    [] lk[i].pc \in {"fb_head", "fb_get"} -> LOCALE_RE_sub(lk[i].final_url)
    [] OTHER -> inp[i].url

\* The validations with a request in flight to domain d.
RequestsTo(d) ==
  {i \in links : lk[i].pc \in SessionPcs /\ LinkOp(i) \in conn
                  /\ domain_of(RequestUrl(i)) = d}

\* C29: every request of a validation is counted against the gate of the
\* domain it is sent to: the requests in flight to one domain (primary
\* requests, body re-fetches of final_url, fallback probes) never exceed the
\* per-domain limit, also when a link of another domain was redirected to it.
C29_GateOfTargetDomain ==
  \A d \in Domains : Cardinality(RequestsTo(d)) <= PER_DOMAIN_CONCURRENCY

\* C30: no deadlock between the gates, with at least one connection and at
\* least one permit per domain. Who waits at a domain gate that has no free
\* permit waits for a validation that is inside it; who is inside a gate waits at most for a
\* connection; who holds a connection waits for the network alone, never
\* for a gate; and as long as the run has not returned, a step can be taken.
C30_NoGateDeadlock ==
  run.limit >= 1 /\ PER_DOMAIN_CONCURRENCY >= 1 =>
    /\ \A i \in links :
          lk[i].pc = "acquire" =>
            \/ sem_free(domain_locks, Dom(i))
            \/ \E j \in links : j # i /\ InGate(j) /\ Dom(j) = Dom(i)
    /\ \A i \in links : InGate(i) => lk[i].pc \in SessionPcs
    /\ \A i \in LinkIds :
          LinkOp(i) \in conn => i \in links /\ lk[i].pc \in SessionPcs
    /\ \A k \in 1..MaxPages : PageOp(k) \in conn => fetch[k].pc = "get"
    /\ Cardinality(conn) <= run.limit
    /\ run.phase \in {"extract", "validate"} => CanMove

\* Both gates are full and a validation waits: one link is inside the gate
\* of its domain with the last connection, another waits at that gate.
C30_Witness ==
  \E i, j \in links :
    /\ lk[i].pc = "acquire" /\ Dom(i) = Dom(j)
    /\ InGate(j) /\ LinkOp(j) \in conn
    /\ Cardinality(conn) = run.limit
    /\ domain_locks[Dom(j)] = 0

\* C31: gate permits are conserved. The free permits of every gate are
\* always PER_DOMAIN_CONCURRENCY less the validations of its domain that are
\* inside it, hence within 0..PER_DOMAIN_CONCURRENCY: every permit taken is
\* given back once, on a normal return, on a caught transport error and on
\* cancellation; whenever no validation is inside a gate (after each wave,
\* after a cancelled run) every gate has all its permits.
C31_PermitsConserved ==
  /\ \A d \in DOMAIN domain_locks :
        /\ domain_locks[d] \in 0..PER_DOMAIN_CONCURRENCY
        /\ domain_locks[d] + Cardinality(InFlight(d)) = PER_DOMAIN_CONCURRENCY
  /\ (\A i \in links : ~InGate(i)) =>
        \A d \in DOMAIN domain_locks : domain_locks[d] = PER_DOMAIN_CONCURRENCY

\* A run cancelled in its second wave, while a validation that had sent a
\* request was inside its gate; in the first wave one validation returned
\* the err dict of a failed GET and one returned its verdict.
C31_Witness ==
  /\ run.phase = "cancelled"
  /\ \E i \in links : lk[i].pc = "cancelled" /\ Len(hist[i].reqs) >= 1
  /\ \E j \in links : Done(j) /\ hist[j].get.out = "fail" /\ out[j].status = "N/A"
  /\ \E k \in links : Done(k) /\ out[k].status = "BROKEN"
  /\ \A d \in DOMAIN domain_locks : domain_locks[d] = PER_DOMAIN_CONCURRENCY

\* The pairs of requests of one validation that went to the same URL.
RepeatedRequests(i) ==
  {p \in (1..Len(hist[i].reqs)) \X (1..Len(hist[i].reqs)) :
     p[1] < p[2] /\ hist[i].reqs[p[1]].to = hist[i].reqs[p[2]].to}

\* The requests of the existence check: those sent to final_url without its
\* locale segment.
ExistenceChecks(i) ==
  {k \in 1..Len(hist[i].reqs) :
     /\ LOCALE_RE_search(lk[i].final_url)
     /\ LOCALE_RE_sub(lk[i].final_url) # lk[i].final_url
     /\ hist[i].reqs[k].to = LOCALE_RE_sub(lk[i].final_url)}

\* C32: no retries inside a validation. Apart from one escalation from the
\* probe to a full fetch (a HEAD and then a GET of one URL), no URL is
\* requested a second time during the validation of a link; the existence
\* check of the locale fallback is one request at most; and a validation
\* sends at most five requests.
C32_NoRetries ==
  \A i \in links :
    /\ Cardinality(RepeatedRequests(i)) <= 1
    /\ \A p \in RepeatedRequests(i) :
          hist[i].reqs[p[1]].method = "HEAD" /\ hist[i].reqs[p[2]].method = "GET"
    /\ Cardinality(ExistenceChecks(i)) <= 1
    /\ Len(hist[i].reqs) <= 5

\* What the claim compares of a result (the err dict has no final_url).
Verdict(d) ==
  [k \in {"status", "status_code", "reason", "final_url"} \cap DOMAIN d |-> d[k]]

\* The page of validation i declares a canonical URL that is, up to trailing
\* slashes, the URL its primary request ended on.
DeclaresFinalUrl(i) ==
  \E o \in {hist[i].get, hist[i].reget} :
    /\ o.out = "resp" /\ ~o.body.empty
    /\ o.body.canon \notin {"none", "bad"}
    /\ rstrip_slash(CanonicalUrl(o.body, Primary(i).url))
         = rstrip_slash(Primary(i).url)

\* C33: the canonical check is informational only. A link validated against
\* a server, and against the same server with the canonical link tags taken
\* out of its pages, gets the same status, status_code, reason and final_url;
\* and canonical_match is true only when the page declares a canonical URL
\* equal to final_url up to trailing slashes.
C33_CanonicalInformational ==
  /\ Done(1) /\ Done(2) => Verdict(out[1]) = Verdict(out[2])
  /\ \A i \in links :
        Done(i) /\ "canonical_match" \in DOMAIN out[i] /\ out[i].canonical_match
        => DeclaresFinalUrl(i)

\* C34: BROKEN only for hard HTTP failures. A result is BROKEN only when an
\* HTTP response with status 404, 410 or 5xx was obtained for the link, and
\* it carries that status; a request that failed or timed out, and every
\* other status (401, 403, 405, 429 among them), never gives BROKEN.
C34_BrokenOnlyHardFailures ==
  \A i \in links :
    Done(i) /\ out[i].status = "BROKEN"
    => /\ HasPrimary(i)
       /\ Primary(i).status \in {404, 410} \/ Primary(i).status >= 500
       /\ out[i].status_code = Primary(i).status

\* The probe failed at transport level, the GET was answered 410: BROKEN.
C34_Witness ==
  \E i \in links :
    /\ Done(i) /\ hist[i].head.out = "fail"
    /\ hist[i].get.out = "resp" /\ hist[i].get.status = 410
    /\ out[i].status = "BROKEN"

\* The flag `flag` is in the dict d and true.
Flagged(d, flag) == flag \in DOMAIN d /\ d[flag]

\* C35: rescue flags only on OK results. A result with localized_rescue or
\* js_recovery true has status OK; a BROKEN, SOFT_404, SOFT_403 or N/A
\* result carries neither flag.
C35_RescueFlagsOnlyOnOK ==
  \A i \in links :
    Flagged(out[i], "localized_rescue") \/ Flagged(out[i], "js_recovery")
    => out[i].status = "OK"

\* A challenge page answered 403 (SOFT_403 on its own) was rescued by the
\* locale fallback: OK with localized_rescue.
C35_Witness ==
  \E i \in links :
    /\ Done(i) /\ Flagged(out[i], "localized_rescue")
    /\ HasPrimary(i) /\ Primary(i).status = 403 /\ PrimaryBody(i).cf
    /\ out[i].status = "OK"

\* C36: the render fallback is off by default. validate_link never enables
\* it, and with enable_js false the JS render is not run on any path, from
\* the 403 challenge branch or from the except branch, and no result has
\* js_recovery true.
C36_RenderOffByDefault ==
  \A i \in links :
    /\ ViaValidateLink(i) => ~inp[i].enable_js
    /\ ~inp[i].enable_js =>
          /\ lk[i].pc \notin {"js_403", "js_exc"}
          /\ hist[i].js = NoReq
          /\ ~Flagged(out[i], "js_recovery")

\* With the render off, a 403 challenge page stayed SOFT_403 and nothing
\* was rendered.
C36_Witness ==
  \E i \in links :
    /\ Done(i) /\ ~inp[i].enable_js
    /\ out[i].status = "SOFT_403" /\ ~out[i].js_recovery
    /\ hist[i].js = NoReq

\* C37: phase ordering. No validation of a run has started unless every
\* seed-page fetch of the run has returned, its items are in `extracted` and
\* the de-duplication is done (every extracted key is the key of one link);
\* no two validators of a run have the same key, and no link has more than
\* one result.
C37_PhaseOrdering ==
  /\ (\E i \in LinkIds : lk[i].pc # "idle") =>
        /\ run.phase \in {"validate", "done"}
        /\ \A k \in Pages : fetch[k].pc = "done"
        /\ run.extracted = Flatten([k \in Pages |-> fetch[k].items])
        /\ \A n \in 1..Len(run.extracted) :
              \E i \in links : url_key(run.extracted[n]) = url_key(run.all_links[i])
  /\ run.phase \in {"validate", "done"} =>
        /\ links = 1..Len(run.all_links)
        /\ \A i \in links : inp[i].url = run.all_links[i].url
        /\ \A i, j \in links :
              i # j => url_key(run.all_links[i]) # url_key(run.all_links[j])
        /\ \A i \in links :
              Cardinality({n \in 1..Len(run.results) :
                             run.results[n].url = inp[i].url}) <= 1

\* A validation has its request in flight, after an extraction of two waves
\* in which a page fetch failed and a duplicate candidate was dropped.
C37_Witness ==
  /\ run.phase = "validate" /\ Len(run.urls) > BATCH_SIZE
  /\ \E k \in Pages : FetchFailed(k)
  /\ Len(run.extracted) > Len(run.all_links)
  /\ \E i \in links : LinkOp(i) \in conn

\* C38: locale isolation in main(). A locale whose worker raised or crashed
\* is in failed; when the metrics are built every worker has finished and
\* every submitted locale is in exactly one of results and failed; and every
\* locale whose own worker neither raised nor crashed is in results with
\* the summary of its own run.
C38_LocaleIsolation ==
  pool.phase = "done" =>
        \A l \in 1..pool.n :
          /\ pool.task[l].pc = "collected"
          /\ (l \in DOMAIN pool.results)
               # (\E k \in 1..Len(pool.failed) : pool.failed[k] = l)
          /\ Cardinality({k \in 1..Len(pool.failed) : pool.failed[k] = l}) <= 1
          /\ pool.task[l].end \in {"raised", "crashed"} => l \notin DOMAIN pool.results
          /\ pool.task[l].end \notin {"raised", "crashed"} =>
                /\ l \in DOMAIN pool.results
                /\ pool.results[l] \in Summaries
                /\ pool.written[l] = pool.results[l]

\* C39: the key of normalize_url is a fixed point: for every URL of the
\* list given to remove_duplicate_urls, normalising the key again gives the
\* key (normalize_url answers for every URL of the list: the operator is
\* total on them).
C39_NormalizeFixedPoint ==
  run.phase = "dedup_urls" =>
    \A k \in 1..Len(run.urls) :
      normalize_url(normalize_url(run.urls[k])) = normalize_url(run.urls[k])

====
